---- MODULE Spec2Model ----
(***************************************************************************)
(* Model of the parking assistant's crowd-report aggregation, the lot      *)
(* store, the subscription index and the premium gate.                     *)
(*                                                                         *)
(* Texts that the code parses (free-spot descriptors) are sequences of     *)
(* one-character strings, so that int(), replace() and split() are         *)
(* computed character by character.  Python's None is Ninguno (0) for a    *)
(* lot id and [k |-> "None"] for a timestamp.                              *)
(***************************************************************************)
EXTENDS Integers, Sequences, FiniteSets, Bags, TLC

\* ------------------------------------------------------------------ bounds
NumConductores == 5
NumParqueaderos == 1
NumSuscriptores == 2
MaxTiempo == 2
NumRegistrantes == 3
\* rows of the conversation collection when one driver talks, and rows of each
\* user when several do
MaxMensajes == 12
MaxAjenos == 2

\* ------------------------------------------------------- program constants
UMBRAL == 5
MAX_INTENTOS == 10
PERIODO == 10000
DIAS_PREMIUM == 7
MANTENER_ULTIMOS == 10
LIMITE == 5
\* the thresholds of tiempo_relativo, in seconds
MINUTO == 60
HORA == 3600
DIA == 86400
SEMANA == 604800
\* timestamps labelled by tiempo_relativo
NumMarcas == 2
Ninguno == 0

Conductores == 1..NumConductores
Parqueaderos == 1..NumParqueaderos
\* lot ids a caller may pass: the stored lots and one id that resolves to nothing
IdsParqueadero == 1..(NumParqueaderos + 1)
\* one manager per lot, and one manager with no lot assigned
Gestores == 1..(NumParqueaderos + 1)

VARIABLES parqueaderos, reportes, suscripciones, usuarios, ahora, ultimo, pc, leido,
          mensajes_conversacion, agents_cache

vars ==
    <<parqueaderos, reportes, suscripciones, usuarios, ahora, ultimo, pc, leido,
      mensajes_conversacion, agents_cache>>

\* ------------------------------------------------------------------- texts
Digitos == {"0", "1", "2", "3", "4", "5", "6", "7", "8", "9"}
Blancos == {" "}

ValorDigito(c) ==
    CASE c = "0" -> 0 [] c = "1" -> 1 [] c = "2" -> 2 [] c = "3" -> 3 [] c = "4" -> 4
      [] c = "5" -> 5 [] c = "6" -> 6 [] c = "7" -> 7 [] c = "8" -> 8 [] c = "9" -> 9

AlgunosCupos == <<"A", "l", "g", "u", "n", "o", "s", " ", "c", "u", "p", "o", "s">>
ReportadoPorUsuarios ==
    <<"R", "e", "p", "o", "r", "t", "a", "d", "o", " ", "p", "o", "r", " ",
      "u", "s", "u", "a", "r", "i", "o", "s">>
DisponibleSegunReportes ==
    <<"D", "i", "s", "p", "o", "n", "i", "b", "l", "e", " ", "s", "e", "g", "u", "n", " ",
      "r", "e", "p", "o", "r", "t", "e", "s", " ", "d", "e", " ",
      "c", "o", "n", "d", "u", "c", "t", "o", "r", "e", "s">>
SinCuposDisponibles ==
    <<"S", "i", "n", " ", "c", "u", "p", "o", "s", " ",
      "d", "i", "s", "p", "o", "n", "i", "b", "l", "e", "s">>
CuposDisponibles ==
    <<"C", "u", "p", "o", "s", " ", "d", "i", "s", "p", "o", "n", "i", "b", "l", "e", "s">>

PocosCuposDisponibles ==
    <<"P", "o", "c", "o", "s", " ", "c", "u", "p", "o", "s", " ", "d", "i", "s", "p",
      "o", "n", "i", "b", "l", "e", "s">>
DisponibilidadModerada ==
    <<"D", "i", "s", "p", "o", "n", "i", "b", "i", "l", "i", "d", "a", "d", " ", "m",
      "o", "d", "e", "r", "a", "d", "a">>
BuenaDisponibilidad ==
    <<"B", "u", "e", "n", "a", " ", "d", "i", "s", "p", "o", "n", "i", "b", "i", "l",
      "i", "d", "a", "d">>
CasiLleno ==
    <<"C", "a", "s", "i", " ", "l", "l", "e", "n", "o">>

\* str.strip(): leading and trailing blanks removed
RECURSIVE QuitarBlancosIzq(_)
QuitarBlancosIzq(s) ==
    IF s # <<>> /\ Head(s) \in Blancos THEN QuitarBlancosIzq(Tail(s)) ELSE s

RECURSIVE QuitarBlancosDer(_)
QuitarBlancosDer(s) ==
    IF s # <<>> /\ s[Len(s)] \in Blancos
    THEN QuitarBlancosDer(SubSeq(s, 1, Len(s) - 1))
    ELSE s

Strip(s) == QuitarBlancosDer(QuitarBlancosIzq(s))

SinSigno(s) == IF s # <<>> /\ Head(s) \in {"+", "-"} THEN Tail(s) ELSE s

\* int(s) succeeds: blanks around, an optional sign, then one digit or more
EsEntero(s) ==
    LET d == SinSigno(Strip(s))
    IN  d # <<>> /\ \A i \in 1..Len(d) : d[i] \in Digitos

RECURSIVE ValorDecimal(_)
ValorDecimal(d) ==
    IF d = <<>> THEN 0
    ELSE 10 * ValorDecimal(SubSeq(d, 1, Len(d) - 1)) + ValorDigito(d[Len(d)])

\* int(s) where it succeeds
Entero(s) ==
    LET t == Strip(s)
        v == ValorDecimal(SinSigno(t))
    IN  IF t # <<>> /\ Head(t) = "-" THEN 0 - v ELSE v

\* s.replace(c, ""): every occurrence of the character removed
RECURSIVE Quitar(_, _)
Quitar(s, c) ==
    IF s = <<>> THEN <<>>
    ELSE IF Head(s) = c THEN Quitar(Tail(s), c)
    ELSE <<Head(s)>> \o Quitar(Tail(s), c)

\* the characters up to the first blank
RECURSIVE HastaBlanco(_)
HastaBlanco(s) ==
    IF s = <<>> \/ Head(s) \in Blancos THEN <<>>
    ELSE <<Head(s)>> \o HastaBlanco(Tail(s))

\* s.split() is not empty
TienePalabra(s) == QuitarBlancosIzq(s) # <<>>

\* s.split()[0] where it exists
PrimeraPalabra(s) == HastaBlanco(QuitarBlancosIzq(s))

\* cupos.replace("+", "").replace("-", "")
SinMasNiMenos(s) == Quitar(Quitar(s, "+"), "-")

\* ------------------------------------------------------------ lot store
\* Parqueadero(...) built with the model's defaults and the creator's availability
ParqueaderoNuevo(tiene) ==
    [tiene_cupos |-> tiene, cupos_libres |-> <<"0">>, rango_cupos |-> <<>>,
     estado_ocupacion |-> <<>>]

\* mutant: the existence check always passes
ExisteParqueadero_SinVerificar(pq, parking_id) == TRUE

\* find_by_id: the lot exists
ExisteParqueadero(pq, parking_id) == parking_id \in DOMAIN pq

\* mutant: the update without the range and the state label (actualizar_cupos)
actualizar_cupos_sin_rango(pq, parking_id, cupos_libres, tiene_cupos, rango_cupos, estado) ==
    IF parking_id \in DOMAIN pq
    THEN [pq EXCEPT ![parking_id].tiene_cupos = tiene_cupos,
                    ![parking_id].cupos_libres = cupos_libres]
    ELSE pq

\* the update that stores nothing
actualizar_cupos_con_rango_sin_escribir(pq, parking_id, cupos_libres, tiene_cupos, rango_cupos, estado) == pq

\* update_one on the lot with the four fields ($set on a missing _id writes nothing)
actualizar_cupos_con_rango(pq, parking_id, cupos_libres, tiene_cupos, rango_cupos, estado) ==
    IF parking_id \in DOMAIN pq
    THEN [pq EXCEPT ![parking_id] =
            [tiene_cupos |-> tiene_cupos, cupos_libres |-> cupos_libres,
             rango_cupos |-> rango_cupos, estado_ocupacion |-> estado]]
    ELSE pq

\* ---------------------------------------------------------- report ledger
Reporte(parqueadero_id, conductor_id, procesado) ==
    [parqueadero_id |-> parqueadero_id, conductor_id |-> conductor_id,
     procesado |-> procesado]

\* mutant: the row is inserted already processed
crear_reporte_procesado(rep, parqueadero_id, conductor_id) ==
    rep (+) SetToBag({Reporte(parqueadero_id, conductor_id, TRUE)})

\* insert_one of a row with procesado = False; rows are a bag (no uniqueness constraint)
crear_reporte(rep, parqueadero_id, conductor_id) ==
    rep (+) SetToBag({Reporte(parqueadero_id, conductor_id, FALSE)})

\* mutant: the query looks for a processed row
verificar_reporte_procesado(rep, parqueadero_id, conductor_id) ==
    BagIn(Reporte(parqueadero_id, conductor_id, TRUE), rep)

\* find_one({parqueadero_id, conductor_id, procesado: False}) is not None
verificar_reporte_existente(rep, parqueadero_id, conductor_id) ==
    BagIn(Reporte(parqueadero_id, conductor_id, FALSE), rep)

FilasActivas(rep, parqueadero_id) ==
    {r \in BagToSet(rep) : r.parqueadero_id = parqueadero_id /\ ~r.procesado}

RECURSIVE SumaCopias(_, _)
SumaCopias(rep, filas) ==
    IF filas = {} THEN 0
    ELSE LET r == CHOOSE x \in filas : TRUE
         IN  CopiesIn(r, rep) + SumaCopias(rep, filas \ {r})

\* count_documents({parqueadero_id, procesado: False})
contar_reportes_activos(rep, parqueadero_id) ==
    SumaCopias(rep, FilasActivas(rep, parqueadero_id))

\* update_many: every unprocessed row of the lot gets procesado = True
marcar_reportes_como_procesados(rep, parqueadero_id) ==
    LET filas == BagToSet(rep)
        Marcada(r) == IF r.parqueadero_id = parqueadero_id
                      THEN [r EXCEPT !.procesado = TRUE] ELSE r
        nuevas == {Marcada(r) : r \in filas}
    IN  [n \in nuevas |-> SumaCopias(rep, {r \in filas : Marcada(r) = n})]

\* purge of every row of the lot
limpiar_reportes_parqueadero(rep, parqueadero_id) ==
    LET quedan == {r \in BagToSet(rep) : r.parqueadero_id # parqueadero_id}
    IN  [r \in quedan |-> rep[r]]

\* ------------------------------------------------------ subscription index
\* The bag holds the active rows.  A row that is deactivated leaves the bag: no
\* operation reads an inactive row again.
Suscripcion(conductor_id, parqueadero_id, activa) ==
    [conductor_id |-> conductor_id, parqueadero_id |-> parqueadero_id, activa |-> activa]

\* an active row of the driver for that lot (Ninguno: the all-lots subscription)
find_active_suscripcion(sus, conductor_id, parqueadero_id) ==
    BagIn(Suscripcion(conductor_id, parqueadero_id, TRUE), sus)

create_suscripcion(sus, conductor_id, parqueadero_id) ==
    sus (+) SetToBag({Suscripcion(conductor_id, parqueadero_id, TRUE)})

FilasActivasDe(sus, conductor_id) ==
    {r \in BagToSet(sus) : r.conductor_id = conductor_id /\ r.activa}

\* every active row of the driver is set inactive
desactivar_todas_suscripciones(sus, conductor_id) ==
    LET quedan == BagToSet(sus) \ FilasActivasDe(sus, conductor_id)
    IN  [r \in quedan |-> sus[r]]

\* the number of rows desactivar_todas_suscripciones modifies
CantidadActivas(sus, conductor_id) == SumaCopias(sus, FilasActivasDe(sus, conductor_id))

\* one active row of the driver for that lot is set inactive
desactivar_suscripcion(sus, conductor_id, parqueadero_id) ==
    sus (-) SetToBag({Suscripcion(conductor_id, parqueadero_id, TRUE)})

\* targets_for_lot: drivers subscribed to the lot, and drivers subscribed to all lots
DestinatariosDe(sus, parqueadero_id) ==
    {r.conductor_id : r \in {x \in BagToSet(sus) :
        x.activa /\ x.parqueadero_id = parqueadero_id}}
    \cup
    {r.conductor_id : r \in {x \in BagToSet(sus) :
        x.activa /\ x.parqueadero_id = Ninguno}}

\* ---------------------------------------------------------------- messages
Mensaje(para, tipo, codigo, referidos) ==
    [para |-> para, tipo |-> tipo, codigo |-> codigo, referidos |-> referidos]

\* one message per matching subscription row instead of one per driver
NotificacionesPorFila(sus, parqueadero_id) ==
    LET filas == {x \in BagToSet(sus) :
                    x.activa /\ x.parqueadero_id \in {parqueadero_id, Ninguno}}
    IN  [m \in {Mensaje(r.conductor_id, "cupo_liberado", parqueadero_id, 0) : r \in filas}
           |-> Cardinality({r \in filas : r.conductor_id = m.para})]

\* NotificationService.notificar_cupo_liberado: one message per target
NotificacionesDe(sus, parqueadero_id) ==
    SetToBag({Mensaje(d, "cupo_liberado", parqueadero_id, 0) :
                d \in DestinatariosDe(sus, parqueadero_id)})

notificar_cupo_liberado(sus, parqueadero_id) ==
    [mensajes |-> NotificacionesDe(sus, parqueadero_id),
     enviadas |-> BagCardinality(NotificacionesDe(sus, parqueadero_id))]

\* update of the lot, then the fan-out when tiene_cupos and int(cupos_libres) > 0;
\* int() of a text that is no integer raises after the lot has been written
actualizar_cupos_con_notificacion(pq, sus, parking_id, cupos_libres, tiene_cupos, rango_cupos, estado) ==
    LET escrito == actualizar_cupos_con_rango(pq, parking_id, cupos_libres, tiene_cupos,
                                              rango_cupos, estado)
    IN  IF tiene_cupos /\ ~EsEntero(cupos_libres)
        THEN [parqueaderos |-> escrito, excepcion |-> TRUE,
              mensajes |-> EmptyBag, notificaciones_enviadas |-> 0]
        ELSE IF tiene_cupos /\ Entero(cupos_libres) > 0
        THEN [parqueaderos |-> escrito, excepcion |-> FALSE,
              mensajes |-> notificar_cupo_liberado(sus, parking_id).mensajes,
              notificaciones_enviadas |-> notificar_cupo_liberado(sus, parking_id).enviadas]
        ELSE [parqueaderos |-> escrito, excepcion |-> FALSE,
              mensajes |-> EmptyBag, notificaciones_enviadas |-> 0]

\* ------------------------------------------------------- entitlement store
SinFecha == [k |-> "None", t |-> 0]
Fecha(t) == [k |-> "fecha", t |-> t]

\* a stored text that strptime rejects
FechaMala == [k |-> "mala", t |-> 0]

\* ------------------------------------------------------- relative labels
\* the text tiempo_relativo returns: its kind and the number it shows
Etiqueta(k, n) == [k |-> k, n |-> n]

\* int(x) of a count of half seconds: the whole seconds, rounded towards zero
SegundosEnteros(medios) ==
    IF medios >= 0 THEN medios \div 2 ELSE 0 - ((0 - medios) \div 2)

\* the labels with every boundary in the earlier range
tiempo_relativo_limite_inclusivo(timestamp, reloj) ==
    IF timestamp.k # "fecha" THEN Etiqueta("Desconocido", 0)
    ELSE LET segundos == SegundosEnteros(reloj - 2 * timestamp.t)
         IN  IF segundos <= MINUTO THEN Etiqueta("Hace unos segundos", 0)
             ELSE IF segundos <= HORA THEN Etiqueta("min", segundos \div MINUTO)
             ELSE IF segundos <= DIA THEN Etiqueta("h", segundos \div HORA)
             ELSE IF segundos <= SEMANA THEN Etiqueta("d", segundos \div DIA)
             ELSE Etiqueta("dd/mm/YYYY", timestamp.t \div DIA)

\* tiempo_relativo: timestamp is a stored text (its instant in seconds when it
\* parses), reloj is datetime.now in half seconds. The date shown for an old
\* timestamp is the day it falls on.
tiempo_relativo(timestamp, reloj) ==
    IF timestamp.k # "fecha" THEN Etiqueta("Desconocido", 0)
    ELSE LET segundos == SegundosEnteros(reloj - 2 * timestamp.t)
         IN  IF segundos < MINUTO THEN Etiqueta("Hace unos segundos", 0)
             ELSE IF segundos < HORA THEN Etiqueta("min", segundos \div MINUTO)
             ELSE IF segundos < DIA THEN Etiqueta("h", segundos \div HORA)
             ELSE IF segundos < SEMANA THEN Etiqueta("d", segundos \div DIA)
             ELSE Etiqueta("dd/mm/YYYY", timestamp.t \div DIA)

UsuarioNuevo(codigo) ==
    [es_premium |-> FALSE, fecha_expiracion_premium |-> SinFecha,
     codigo_referido |-> codigo, referido_por |-> Ninguno, numero_referidos |-> 0]

\* every expiration counts as still ahead
verificar_premium_siempre_activo(fecha_expiracion, t) == TRUE

\* now < expiration; a missing expiration is not active
verificar_premium_activo(fecha_expiracion, t) ==
    IF fecha_expiracion.k # "fecha" THEN FALSE ELSE t < fecha_expiracion.t

\* the deactivation that writes nothing
desactivar_premium_sin_escribir(us, user_id) == us

desactivar_premium(us, user_id) ==
    IF user_id \in DOMAIN us
    THEN [us EXCEPT ![user_id].es_premium = FALSE,
                    ![user_id].fecha_expiracion_premium = SinFecha]
    ELSE us

\* max(0, (expiration - now).days)
calcular_dias_restantes(fecha_expiracion, t) ==
    IF fecha_expiracion.k # "fecha" THEN 0
    ELSE IF fecha_expiracion.t - t > 0 THEN fecha_expiracion.t - t ELSE 0

\* the access record of a call that found no user
SinAcceso ==
    [tiene_acceso |-> FALSE, es_premium |-> FALSE, fecha_expiracion |-> SinFecha,
     dias_restantes |-> 0]

\* the access record returned, and the store after the lazy deactivation
verificar_acceso_premium(us, t, user_id) ==
    IF user_id \notin DOMAIN us
    THEN [usuarios |-> us, tiene_acceso |-> FALSE, es_premium |-> FALSE,
          fecha_expiracion |-> SinFecha, dias_restantes |-> 0]
    ELSE LET u == us[user_id]
             revisa == u.es_premium /\ u.fecha_expiracion_premium.k # "None"
             acceso == revisa /\ verificar_premium_activo(u.fecha_expiracion_premium, t)
         IN  [usuarios |-> IF revisa /\ ~acceso THEN desactivar_premium(us, user_id) ELSE us,
              tiene_acceso |-> acceso, es_premium |-> u.es_premium,
              fecha_expiracion |-> u.fecha_expiracion_premium,
              dias_restantes |-> IF acceso
                                 THEN calcular_dias_restantes(u.fecha_expiracion_premium, t)
                                 ELSE 0]

\* the reminder sent after a report: nothing for an unknown user
recordar_codigo_referido(us, t, user_id) ==
    IF user_id \notin DOMAIN us
    THEN [usuarios |-> us, mensajes |-> EmptyBag]
    ELSE [usuarios |-> verificar_acceso_premium(us, t, user_id).usuarios,
          mensajes |-> SetToBag({Mensaje(user_id, "recordatorio",
                                         us[user_id].codigo_referido,
                                         us[user_id].numero_referidos)})]

\* the paywall message: the user's own code and referral count
mostrar_paywall_notificaciones(us, user_id) ==
    IF user_id \notin DOMAIN us
    THEN SetToBag({Mensaje(user_id, "paywall", Ninguno, 0)})
    ELSE SetToBag({Mensaje(user_id, "paywall", us[user_id].codigo_referido,
                           us[user_id].numero_referidos)})

\* ------------------------------------------------------------------ state
\* the gestor's parqueadero_id: manager g runs lot g, the last manager runs none
ParqueaderoDeGestor(g) == IF g \in Parqueaderos THEN g ELSE Ninguno

\* what the last call returned and sent
Resultado(op, quien, parqueadero, resultado, cuenta, faltantes, notificaciones, mensajes) ==
    [op |-> op, quien |-> quien, parqueadero |-> parqueadero, resultado |-> resultado,
     cuenta |-> cuenta, faltantes |-> faltantes, notificaciones |-> notificaciones,
     mensajes |-> mensajes, lista |-> EmptyBag, codigo |-> <<>>, canjeado |-> <<>>,
     referidor |-> 0, acceso |-> SinAcceso, marca |-> SinFecha, reloj |-> 0,
     etiqueta |-> Etiqueta("ninguna", 0), activo |-> FALSE, fecha |-> SinFecha,
     usuario |-> <<>>, actual |-> 0, previos |-> <<>>, entregados |-> <<>>]

\* the subscriptions of the seeded deployment: driver 1 holds a subscription to
\* lot 1 and the all-lots subscription, driver 2 the all-lots subscription
SuscripcionesSembradas ==
    SetToBag({Suscripcion(1, 1, TRUE), Suscripcion(1, Ninguno, TRUE),
              Suscripcion(2, Ninguno, TRUE)})

InitComun ==
    /\ reportes = EmptyBag
    /\ usuarios = [d \in Conductores |-> UsuarioNuevo(d)]
    /\ ahora = 0
    /\ ultimo = Resultado("ninguna", 0, 0, "ninguno", 0, 0, 0, EmptyBag)
    /\ pc = [d \in Conductores |-> "inactivo"]
    /\ leido = [d \in Conductores |-> 0]
    /\ mensajes_conversacion = <<>>
    /\ agents_cache = {}

\* two deployments: lots created with the model's defaults and nobody subscribed,
\* or lots created without free spots and drivers waiting for a notification
Init ==
    /\ InitComun
    /\ \E tiene \in BOOLEAN :
          /\ parqueaderos = [p \in Parqueaderos |-> ParqueaderoNuevo(tiene)]
          /\ suscripciones = IF tiene THEN EmptyBag ELSE SuscripcionesSembradas

\* ------------------------------------------------------- report aggregator
\* reportar_cupos_disponibles handled to completion, no other request in between
reportar_cupos_disponibles(user_id, parqueadero_id) ==
    IF ~ExisteParqueadero(parqueaderos, parqueadero_id)
    THEN /\ ultimo' = Resultado("reportar", user_id, parqueadero_id, "NotFound",
                                0, 0, 0, EmptyBag)
         /\ UNCHANGED <<parqueaderos, reportes, usuarios>>
    ELSE IF verificar_reporte_existente(reportes, parqueadero_id, user_id)
    THEN /\ ultimo' = Resultado("reportar", user_id, parqueadero_id, "DuplicateReport",
                                contar_reportes_activos(reportes, parqueadero_id),
                                0, 0, EmptyBag)
         /\ UNCHANGED <<parqueaderos, reportes, usuarios>>
    ELSE LET creado == crear_reporte(reportes, parqueadero_id, user_id)
             reportes_actuales == contar_reportes_activos(creado, parqueadero_id)
             act == actualizar_cupos_con_notificacion(
                        parqueaderos, suscripciones, parqueadero_id, AlgunosCupos, TRUE,
                        ReportadoPorUsuarios, DisponibleSegunReportes)
             rec == recordar_codigo_referido(usuarios, ahora, user_id)
         IN  IF reportes_actuales >= UMBRAL
             THEN IF act.excepcion
                  THEN /\ parqueaderos' = act.parqueaderos
                       /\ reportes' = creado
                       /\ ultimo' = Resultado("reportar", user_id, parqueadero_id,
                                              "Excepcion", reportes_actuales, 0, 0,
                                              act.mensajes)
                       /\ UNCHANGED usuarios
                  ELSE /\ parqueaderos' = act.parqueaderos
                       /\ reportes' = limpiar_reportes_parqueadero(
                              marcar_reportes_como_procesados(creado, parqueadero_id),
                              parqueadero_id)
                       /\ usuarios' = rec.usuarios
                       /\ ultimo' = Resultado("reportar", user_id, parqueadero_id,
                                              "Activated", reportes_actuales, 0,
                                              act.notificaciones_enviadas,
                                              act.mensajes (+) rec.mensajes)
             ELSE /\ reportes' = creado
                  /\ usuarios' = rec.usuarios
                  /\ ultimo' = Resultado("reportar", user_id, parqueadero_id, "Pending",
                                         reportes_actuales, UMBRAL - reportes_actuales, 0,
                                         rec.mensajes)
                  /\ UNCHANGED parqueaderos

Reportar ==
    \E d \in Conductores, p \in IdsParqueadero :
        /\ reportar_cupos_disponibles(d, p)
        /\ UNCHANGED <<suscripciones, ahora, pc, leido>>
        /\ UNCHANGED <<mensajes_conversacion, agents_cache>>

\* ------------------------------------------------------------ lot manager
cambiar_estado_cupos(g, tiene_cupos) ==
    IF ParqueaderoDeGestor(g) = Ninguno
    THEN /\ ultimo' = Resultado("cambiar_estado", g, Ninguno, "SinParqueadero",
                                0, 0, 0, EmptyBag)
         /\ UNCHANGED parqueaderos
    ELSE /\ parqueaderos' = actualizar_cupos_con_rango(
                parqueaderos, ParqueaderoDeGestor(g),
                IF tiene_cupos THEN <<"1", "+">> ELSE <<"0">>, tiene_cupos,
                IF tiene_cupos THEN <<"1", "+">> ELSE <<"0">>,
                IF tiene_cupos THEN CuposDisponibles ELSE SinCuposDisponibles)
         /\ ultimo' = Resultado("cambiar_estado", g, ParqueaderoDeGestor(g), "Actualizado",
                                0, 0, 0, EmptyBag)

CambiarEstado ==
    \E g \in Gestores, tiene_cupos \in BOOLEAN :
        /\ cambiar_estado_cupos(g, tiene_cupos)
        /\ UNCHANGED <<reportes, suscripciones, usuarios, ahora, pc, leido>>
        /\ UNCHANGED <<mensajes_conversacion, agents_cache>>

\* ver_mis_reportes: one entry per unprocessed report of the driver whose lot
\* resolves, carrying the lot's count of unprocessed reports (the entries are a
\* bag: the order of the cursor is not modelled)
ver_mis_reportes(rep, pq, user_id) ==
    LET filas == {r \in BagToSet(rep) :
                    /\ r.conductor_id = user_id /\ ~r.procesado
                    /\ ExisteParqueadero(pq, r.parqueadero_id)}
    IN  [e \in {[parqueadero_id |-> r.parqueadero_id,
                 reportes |-> contar_reportes_activos(rep, r.parqueadero_id)] : r \in filas}
           |-> rep[Reporte(e.parqueadero_id, user_id, FALSE)]]

VerMisReportes ==
    \E d \in Conductores :
        /\ ultimo' = [Resultado("ver_mis_reportes", d, Ninguno, "Listado", 0, 0, 0, EmptyBag)
                         EXCEPT !.lista = ver_mis_reportes(reportes, parqueaderos, d)]
        /\ UNCHANGED <<parqueaderos, reportes, suscripciones, usuarios, ahora, pc, leido>>
        /\ UNCHANGED <<mensajes_conversacion, agents_cache>>

Next == Reportar

Spec == Init /\ [][Next]_vars

\* reports and listings, one call at a time
NextListado == Reportar \/ VerMisReportes

SpecListado == Init /\ [][NextListado]_vars

\* the state label inferred from the descriptor
inferir_estado(cupos_str) ==
    LET cupos_numero == PrimeraPalabra(SinMasNiMenos(cupos_str))
    IN  IF ~EsEntero(cupos_numero) THEN CuposDisponibles
        ELSE IF Entero(cupos_numero) = 0 THEN SinCuposDisponibles
        ELSE IF Entero(cupos_numero) <= 3 THEN PocosCuposDisponibles
        ELSE IF Entero(cupos_numero) <= 10 THEN DisponibilidadModerada
        ELSE BuenaDisponibilidad

\* actualizar_cupos of manager g; split()[0] of a descriptor without a word raises
\* before anything is written, int() of a non-numeric count raises after the write
actualizar_cupos(g, cupos_disponibles, descripcion_estado) ==
    IF ParqueaderoDeGestor(g) = Ninguno
    THEN /\ ultimo' = Resultado("actualizar_cupos", g, Ninguno, "SinParqueadero",
                                0, 0, 0, EmptyBag)
         /\ UNCHANGED parqueaderos
    ELSE IF ~TienePalabra(SinMasNiMenos(cupos_disponibles))
    THEN /\ ultimo' = Resultado("actualizar_cupos", g, ParqueaderoDeGestor(g), "Excepcion",
                                0, 0, 0, EmptyBag)
         /\ UNCHANGED parqueaderos
    ELSE LET cupos_numero == PrimeraPalabra(SinMasNiMenos(cupos_disponibles))
             tiene_cupos == ~(EsEntero(cupos_numero) /\ Entero(cupos_numero) = 0)
             estado == IF descripcion_estado # <<>> THEN descripcion_estado
                       ELSE inferir_estado(cupos_disponibles)
             act == actualizar_cupos_con_notificacion(
                        parqueaderos, suscripciones, ParqueaderoDeGestor(g), cupos_numero,
                        tiene_cupos, cupos_disponibles, estado)
         IN  /\ parqueaderos' = act.parqueaderos
             /\ ultimo' = Resultado("actualizar_cupos", g, ParqueaderoDeGestor(g),
                                    IF act.excepcion THEN "Excepcion" ELSE "Actualizado",
                                    0, 0, act.notificaciones_enviadas, act.mensajes)

\* the descriptors with an exact count: "5" and "0"
DescriptoresExactos == {<<"5">>, <<"0">>}

\* a manager's update with an exact count and no description
ActualizarCuposExactos ==
    \E g \in Gestores, c \in DescriptoresExactos :
        /\ actualizar_cupos(g, c, <<>>)
        /\ UNCHANGED <<reportes, suscripciones, usuarios, ahora, pc, leido>>
        /\ UNCHANGED <<mensajes_conversacion, agents_cache>>

\* what a manager may type as cupos_disponibles: exact counts, a range, an
\* open count, a range from zero and a word
Descriptores ==
    DescriptoresExactos
      \cup {<<"1", "0", "-", "1", "5">>, <<"2", "0", "+">>, <<"0", "-", "5">>,
            <<"p", "o", "c", "o", "s">>}

\* a manager's update with any of the descriptors and no description
ActualizarCupos ==
    \E g \in Gestores, c \in Descriptores :
        /\ actualizar_cupos(g, c, <<>>)
        /\ UNCHANGED <<reportes, suscripciones, usuarios, ahora, pc, leido>>
        /\ UNCHANGED <<mensajes_conversacion, agents_cache>>

\* lots from their creation on: reports, manager updates and manager switches
NextCupos == Reportar \/ ActualizarCupos \/ CambiarEstado

SpecCupos == Init /\ [][NextCupos]_vars

\* ------------------------------------- a manager's update, write by write
\* the arguments actualizar_cupos hands to actualizar_cupos_con_notificacion
Pendiente(cupos_libres, tiene_cupos, rango_cupos, estado) ==
    [cupos_libres |-> cupos_libres, tiene_cupos |-> tiene_cupos,
     rango_cupos |-> rango_cupos, estado_ocupacion |-> estado]

\* actualizar_cupos up to the write of the lot: the manager's lot is looked
\* up, the count and tiene_cupos are worked out, and actualizar_cupos_con_rango
\* stores them; a manager without a lot and a descriptor without a word end
\* the call here
PasoEscribirCupos(g, cupos_disponibles) ==
    /\ pc[g] = "inactivo"
    /\ IF ParqueaderoDeGestor(g) = Ninguno
       THEN /\ ultimo' = Resultado("actualizar_cupos", g, Ninguno, "SinParqueadero",
                                   0, 0, 0, EmptyBag)
            /\ UNCHANGED <<parqueaderos, pc, leido>>
            /\ UNCHANGED <<mensajes_conversacion, agents_cache>>
       ELSE IF ~TienePalabra(SinMasNiMenos(cupos_disponibles))
       THEN /\ ultimo' = Resultado("actualizar_cupos", g, ParqueaderoDeGestor(g),
                                   "Excepcion", 0, 0, 0, EmptyBag)
            /\ UNCHANGED <<parqueaderos, pc, leido>>
            /\ UNCHANGED <<mensajes_conversacion, agents_cache>>
       ELSE LET cupos_numero == PrimeraPalabra(SinMasNiMenos(cupos_disponibles))
                tiene_cupos == ~(EsEntero(cupos_numero) /\ Entero(cupos_numero) = 0)
                estado == inferir_estado(cupos_disponibles)
            IN  /\ parqueaderos' = actualizar_cupos_con_rango(
                                       parqueaderos, ParqueaderoDeGestor(g), cupos_numero,
                                       tiene_cupos, cupos_disponibles, estado)
                /\ pc' = [pc EXCEPT ![g] = "escrito"]
                /\ leido' = [leido EXCEPT ![g] = Pendiente(cupos_numero, tiene_cupos,
                                                           cupos_disponibles, estado)]
                /\ ultimo' = Resultado("escribir_cupos", g, ParqueaderoDeGestor(g),
                                       "ninguno", 0, 0, 0, EmptyBag)
    /\ UNCHANGED <<reportes, suscripciones, usuarios, ahora>>
    /\ UNCHANGED <<mensajes_conversacion, agents_cache>>

\* the rest of actualizar_cupos_con_notificacion: the test on tiene_cupos and
\* int(cupos_libres), the fan-out, and the manager's confirmation
PasoNotificarCupos(g) ==
    /\ pc[g] = "escrito"
    /\ LET p == ParqueaderoDeGestor(g)
           a == leido[g]
       IN  IF a.tiene_cupos /\ ~EsEntero(a.cupos_libres)
           THEN ultimo' = Resultado("actualizar_cupos", g, p, "Excepcion", 0, 0, 0, EmptyBag)
           ELSE IF a.tiene_cupos /\ Entero(a.cupos_libres) > 0
           THEN ultimo' = Resultado("actualizar_cupos", g, p, "Actualizado", 0, 0,
                                    notificar_cupo_liberado(suscripciones, p).enviadas,
                                    notificar_cupo_liberado(suscripciones, p).mensajes)
           ELSE ultimo' = Resultado("actualizar_cupos", g, p, "Actualizado", 0, 0, 0,
                                    EmptyBag)
    /\ pc' = [pc EXCEPT ![g] = "inactivo"]
    /\ leido' = [leido EXCEPT ![g] = 0]
    /\ UNCHANGED <<parqueaderos, reportes, suscripciones, usuarios, ahora>>
    /\ UNCHANGED <<mensajes_conversacion, agents_cache>>

EscribirCupos == \E g \in Gestores, c \in Descriptores : PasoEscribirCupos(g, c)

NotificarCupos == \E g \in Gestores : PasoNotificarCupos(g)

\* ------------------------------------------------------ notification gate
Suscriptores == 1..NumSuscriptores

suscribirse_a_parqueadero(user_id, parqueadero_id) ==
    LET acceso == verificar_acceso_premium(usuarios, ahora, user_id)
    IN  /\ usuarios' = acceso.usuarios
        /\ IF ~acceso.tiene_acceso
           THEN /\ ultimo' = Resultado("suscribirse", user_id, parqueadero_id, "Paywall",
                       0, 0, 0, mostrar_paywall_notificaciones(acceso.usuarios, user_id))
                /\ UNCHANGED suscripciones
           ELSE IF ~ExisteParqueadero(parqueaderos, parqueadero_id)
           THEN /\ ultimo' = Resultado("suscribirse", user_id, parqueadero_id, "NotFound",
                                       0, 0, 0, EmptyBag)
                /\ UNCHANGED suscripciones
           ELSE IF find_active_suscripcion(suscripciones, user_id, parqueadero_id)
           THEN /\ ultimo' = Resultado("suscribirse", user_id, parqueadero_id,
                                       "AlreadySubscribed", 0, 0, 0, EmptyBag)
                /\ UNCHANGED suscripciones
           ELSE /\ suscripciones' = create_suscripcion(suscripciones, user_id, parqueadero_id)
                /\ ultimo' = Resultado("suscribirse", user_id, parqueadero_id, "Subscribed",
                                       acceso.dias_restantes, 0, 0, EmptyBag)

\* the all-lots subscription created without deactivating the driver's rows
suscribirse_a_todos_sin_desactivar(user_id) ==
    LET acceso == verificar_acceso_premium(usuarios, ahora, user_id)
    IN  /\ usuarios' = acceso.usuarios
        /\ IF ~acceso.tiene_acceso
           THEN /\ ultimo' = Resultado("suscribirse_todos", user_id, Ninguno, "Paywall",
                       0, 0, 0, mostrar_paywall_notificaciones(acceso.usuarios, user_id))
                /\ UNCHANGED suscripciones
           ELSE IF find_active_suscripcion(suscripciones, user_id, Ninguno)
           THEN /\ ultimo' = Resultado("suscribirse_todos", user_id, Ninguno,
                                       "AlreadySubscribed", 0, 0, 0, EmptyBag)
                /\ UNCHANGED suscripciones
           ELSE /\ suscripciones' = create_suscripcion(suscripciones, user_id, Ninguno)
                /\ ultimo' = Resultado("suscribirse_todos", user_id, Ninguno, "Subscribed",
                                       acceso.dias_restantes, 0, 0, EmptyBag)

\* the all-lots subscription created without looking for an existing one
suscribirse_a_todos_sin_verificar(user_id) ==
    LET acceso == verificar_acceso_premium(usuarios, ahora, user_id)
    IN  /\ usuarios' = acceso.usuarios
        /\ IF ~acceso.tiene_acceso
           THEN /\ ultimo' = Resultado("suscribirse_todos", user_id, Ninguno, "Paywall",
                       0, 0, 0, mostrar_paywall_notificaciones(acceso.usuarios, user_id))
                /\ UNCHANGED suscripciones
           ELSE /\ suscripciones' = create_suscripcion(
                       desactivar_todas_suscripciones(suscripciones, user_id),
                       user_id, Ninguno)
                /\ ultimo' = Resultado("suscribirse_todos", user_id, Ninguno, "Subscribed",
                                       acceso.dias_restantes, 0, 0, EmptyBag)

suscribirse_a_todos(user_id) ==
    LET acceso == verificar_acceso_premium(usuarios, ahora, user_id)
    IN  /\ usuarios' = acceso.usuarios
        /\ IF ~acceso.tiene_acceso
           THEN /\ ultimo' = Resultado("suscribirse_todos", user_id, Ninguno, "Paywall",
                       0, 0, 0, mostrar_paywall_notificaciones(acceso.usuarios, user_id))
                /\ UNCHANGED suscripciones
           ELSE IF find_active_suscripcion(suscripciones, user_id, Ninguno)
           THEN /\ ultimo' = Resultado("suscribirse_todos", user_id, Ninguno,
                                       "AlreadySubscribed", 0, 0, 0, EmptyBag)
                /\ UNCHANGED suscripciones
           ELSE /\ suscripciones' = create_suscripcion(
                       desactivar_todas_suscripciones(suscripciones, user_id),
                       user_id, Ninguno)
                /\ ultimo' = Resultado("suscribirse_todos", user_id, Ninguno, "Subscribed",
                                       acceso.dias_restantes, 0, 0, EmptyBag)

\* the unsubscribe that deactivates every row of the driver
desuscribirse_de_parqueadero_todas(user_id, parqueadero_id) ==
    IF ~ExisteParqueadero(parqueaderos, parqueadero_id)
    THEN /\ ultimo' = Resultado("desuscribirse", user_id, parqueadero_id, "NotFound",
                                0, 0, 0, EmptyBag)
         /\ UNCHANGED suscripciones
    ELSE IF ~find_active_suscripcion(suscripciones, user_id, parqueadero_id)
    THEN /\ ultimo' = Resultado("desuscribirse", user_id, parqueadero_id, "NotSubscribed",
                                0, 0, 0, EmptyBag)
         /\ UNCHANGED suscripciones
    ELSE /\ suscripciones' = desactivar_todas_suscripciones(suscripciones, user_id)
         /\ ultimo' = Resultado("desuscribirse", user_id, parqueadero_id, "Unsubscribed",
                                0, 0, 0, EmptyBag)

desuscribirse_de_parqueadero(user_id, parqueadero_id) ==
    IF ~ExisteParqueadero(parqueaderos, parqueadero_id)
    THEN /\ ultimo' = Resultado("desuscribirse", user_id, parqueadero_id, "NotFound",
                                0, 0, 0, EmptyBag)
         /\ UNCHANGED suscripciones
    ELSE IF ~find_active_suscripcion(suscripciones, user_id, parqueadero_id)
    THEN /\ ultimo' = Resultado("desuscribirse", user_id, parqueadero_id, "NotSubscribed",
                                0, 0, 0, EmptyBag)
         /\ UNCHANGED suscripciones
    ELSE /\ suscripciones' = desactivar_suscripcion(suscripciones, user_id, parqueadero_id)
         /\ ultimo' = Resultado("desuscribirse", user_id, parqueadero_id, "Unsubscribed",
                                0, 0, 0, EmptyBag)

\* the unsubscribe from everything that keeps the all-lots row
desuscribirse_de_todos_especificas(user_id) ==
    /\ suscripciones' =
         IF find_active_suscripcion(suscripciones, user_id, Ninguno)
         THEN create_suscripcion(desactivar_todas_suscripciones(suscripciones, user_id),
                                 user_id, Ninguno)
         ELSE desactivar_todas_suscripciones(suscripciones, user_id)
    /\ ultimo' = Resultado("desuscribirse_todos", user_id, Ninguno,
                           IF CantidadActivas(suscripciones, user_id) = 0
                           THEN "NotSubscribed" ELSE "Unsubscribed",
                           CantidadActivas(suscripciones, user_id), 0, 0, EmptyBag)

desuscribirse_de_todos(user_id) ==
    /\ suscripciones' = desactivar_todas_suscripciones(suscripciones, user_id)
    /\ ultimo' = Resultado("desuscribirse_todos", user_id, Ninguno,
                           IF CantidadActivas(suscripciones, user_id) = 0
                           THEN "NotSubscribed" ELSE "Unsubscribed",
                           CantidadActivas(suscripciones, user_id), 0, 0, EmptyBag)

SuscribirseAParqueadero ==
    \E u \in Suscriptores, p \in IdsParqueadero :
        /\ suscribirse_a_parqueadero(u, p)
        /\ UNCHANGED <<parqueaderos, reportes, ahora, pc, leido>>
        /\ UNCHANGED <<mensajes_conversacion, agents_cache>>

SuscribirseATodos ==
    \E u \in Suscriptores :
        /\ suscribirse_a_todos(u)
        /\ UNCHANGED <<parqueaderos, reportes, ahora, pc, leido>>
        /\ UNCHANGED <<mensajes_conversacion, agents_cache>>

DesuscribirseDeParqueadero ==
    \E u \in Suscriptores, p \in IdsParqueadero :
        /\ desuscribirse_de_parqueadero(u, p)
        /\ UNCHANGED <<parqueaderos, reportes, usuarios, ahora, pc, leido>>
        /\ UNCHANGED <<mensajes_conversacion, agents_cache>>

DesuscribirseDeTodos ==
    \E u \in Suscriptores :
        /\ desuscribirse_de_todos(u)
        /\ UNCHANGED <<parqueaderos, reportes, usuarios, ahora, pc, leido>>
        /\ UNCHANGED <<mensajes_conversacion, agents_cache>>

\* a day passes
PasaTiempo ==
    /\ ahora < MaxTiempo
    /\ ahora' = ahora + 1
    /\ ultimo' = Resultado("pasa_tiempo", 0, 0, "ninguno", 0, 0, 0, EmptyBag)
    /\ UNCHANGED <<parqueaderos, reportes, suscripciones, usuarios, pc, leido>>
    /\ UNCHANGED <<mensajes_conversacion, agents_cache>>

\* a user whose referral code was redeemed once: premium with `expira` as its end
UsuarioPremium(codigo, expira) ==
    [es_premium |-> TRUE, fecha_expiracion_premium |-> Fecha(expira),
     codigo_referido |-> codigo, referido_por |-> Ninguno, numero_referidos |-> 1]

\* a user whose premium ran out and was deactivated by a later access check
UsuarioVencido(codigo) ==
    [es_premium |-> FALSE, fecha_expiracion_premium |-> SinFecha,
     codigo_referido |-> codigo, referido_por |-> Ninguno, numero_referidos |-> 1]

\* Registered drivers: driver 1 has one day of premium left; driver 2's premium
\* ran out, and the subscription made while it lasted (to lot 1 or to all lots)
\* is still active; the other drivers never had premium.
InitSuscripciones ==
    /\ parqueaderos = [p \in Parqueaderos |-> ParqueaderoNuevo(TRUE)]
    /\ reportes = EmptyBag
    /\ \E p \in {1, Ninguno} : suscripciones = SetToBag({Suscripcion(2, p, TRUE)})
    /\ usuarios = [d \in Conductores |->
                      IF d = 1 THEN UsuarioPremium(d, 1)
                      ELSE IF d = 2 THEN UsuarioVencido(d)
                      ELSE UsuarioNuevo(d)]
    /\ ahora = 0
    /\ ultimo = Resultado("ninguna", 0, 0, "ninguno", 0, 0, 0, EmptyBag)
    /\ pc = [d \in Conductores |-> "inactivo"]
    /\ leido = [d \in Conductores |-> 0]
    /\ mensajes_conversacion = <<>>
    /\ agents_cache = {}

NextSuscripciones ==
    \/ SuscribirseAParqueadero
    \/ SuscribirseATodos
    \/ DesuscribirseDeParqueadero
    \/ DesuscribirseDeTodos
    \/ ActualizarCuposExactos
    \/ CambiarEstado
    \/ PasaTiempo

SpecSuscripciones == InitSuscripciones /\ [][NextSuscripciones]_vars

\* manager updates write by write, while drivers subscribe and unsubscribe
NextActualizacion ==
    \/ EscribirCupos
    \/ NotificarCupos
    \/ SuscribirseAParqueadero
    \/ DesuscribirseDeTodos

SpecActualizacion == InitSuscripciones /\ [][NextActualizacion]_vars

\* reports by drivers whose premium runs out as the days pass
NextRecordatorio == Reportar \/ PasaTiempo

SpecRecordatorio == InitSuscripciones /\ [][NextRecordatorio]_vars

\* ---------------------------------------------------------- referral engine
\* A referral code is a text of six characters; a user who has none holds
\* Python's None, here the empty text.
SinCodigo == <<>>

\* a user created by handle_nuevo_usuario and asked for a name: no code,
\* referred by nobody
UsuarioSinCodigo ==
    [es_premium |-> FALSE, fecha_expiracion_premium |-> SinFecha,
     codigo_referido |-> SinCodigo, referido_por |-> SinCodigo, numero_referidos |-> 0,
     estado_registro |-> "esperando_nombre"]

\* the same user once the name has been given: asked for a referral code
UsuarioConNombre ==
    [UsuarioSinCodigo EXCEPT !.estado_registro = "esperando_codigo_referido"]

\* a registered user holding a code, premium until `expira`, one referral made
UsuarioRegistrado(codigo, expira) ==
    [es_premium |-> TRUE, fecha_expiracion_premium |-> Fecha(expira),
     codigo_referido |-> codigo, referido_por |-> SinCodigo, numero_referidos |-> 1,
     estado_registro |-> "completo"]

\* the update that never stores "completo"
actualizar_estado_registro_sin_completar(us, user_id, estado_registro) ==
    IF user_id \in DOMAIN us /\ estado_registro # "completo"
    THEN [us EXCEPT ![user_id].estado_registro = estado_registro]
    ELSE us

actualizar_estado_registro(us, user_id, estado_registro) ==
    IF user_id \in DOMAIN us THEN [us EXCEPT ![user_id].estado_registro = estado_registro]
    ELSE us

\* the name is stored (not kept in the model) and the state set to "completo"
actualizar_nombre(us, user_id) ==
    IF user_id \in DOMAIN us THEN [us EXCEPT ![user_id].estado_registro = "completo"]
    ELSE us

\* no document holds the code
verificar_codigo_disponible(us, codigo) ==
    \A u \in DOMAIN us : us[u].codigo_referido # codigo

asignar_codigo_referido(us, user_id, codigo) ==
    IF user_id \in DOMAIN us THEN [us EXCEPT ![user_id].codigo_referido = codigo] ELSE us

\* every document that holds some code, whatever the code asked for
buscar_cualquier_codigo(us, codigo) ==
    {u \in DOMAIN us : us[u].codigo_referido # SinCodigo}

\* the documents find_one can return for the code (the first in storage order)
buscar_por_codigo_referido(us, codigo) ==
    {u \in DOMAIN us : us[u].codigo_referido = codigo}

registrar_referido(us, user_id, codigo_referidor) ==
    IF user_id \in DOMAIN us THEN [us EXCEPT ![user_id].referido_por = codigo_referidor]
    ELSE us

\* the increment applied to every document
incrementar_referidos_de_todos(us, user_id) ==
    [u \in DOMAIN us |-> [us[u] EXCEPT !.numero_referidos = us[u].numero_referidos + 1]]

incrementar_referidos(us, user_id) ==
    IF user_id \in DOMAIN us
    THEN [us EXCEPT ![user_id].numero_referidos = us[user_id].numero_referidos + 1]
    ELSE us

\* the activation that stores the flag and no expiration
activar_premium_sin_fecha(us, user_id, fecha_expiracion) ==
    IF user_id \in DOMAIN us THEN [us EXCEPT ![user_id].es_premium = TRUE] ELSE us

activar_premium(us, user_id, fecha_expiracion) ==
    IF user_id \in DOMAIN us
    THEN [us EXCEPT ![user_id].es_premium = TRUE,
                    ![user_id].fecha_expiracion_premium = fecha_expiracion]
    ELSE us

\* now + dias
calcular_fecha_expiracion_premium(t, dias) == Fecha(t + dias)

\* the extension that takes every stored text for a date
extender_fecha_sin_respaldo(fecha_actual, dias_adicionales, t) ==
    Fecha(fecha_actual.t + dias_adicionales)

\* the stored expiration + dias; from now when the stored one does not parse
extender_fecha_expiracion_premium(fecha_actual, dias_adicionales, t) ==
    IF fecha_actual.k = "fecha" THEN Fecha(fecha_actual.t + dias_adicionales)
    ELSE calcular_fecha_expiracion_premium(t, dias_adicionales)

\* "%04d" of a number below 10000
CuatroDigitos(n) ==
    LET d(k) == CHOOSE c \in Digitos : ValorDigito(c) = k
    IN  <<d(n \div 1000), d((n \div 100) % 10), d((n \div 10) % 10), d(n % 10)>>

\* f"SB{int(time.time()) % 10000:04d}"
codigo_timestamp(segundos) == <<"S", "B">> \o CuatroDigitos(segundos % PERIODO)

\* the loop over the candidates: the index of the first one no document holds,
\* 0 when all MAX_INTENTOS candidates are taken
RECURSIVE PrimerDisponible(_, _, _)
PrimerDisponible(us, sorteo, i) ==
    IF i > MAX_INTENTOS THEN 0
    ELSE IF verificar_codigo_disponible(us, sorteo[i]) THEN i
    ELSE PrimerDisponible(us, sorteo, i + 1)

\* the generation that gives up when every candidate is taken
generar_sin_respaldo(us, wa_id, sorteo, segundos) ==
    LET i == PrimerDisponible(us, sorteo, 1)
    IN  IF i > 0
        THEN [usuarios |-> asignar_codigo_referido(us, wa_id, sorteo[i]),
              codigo |-> sorteo[i], intentos |-> i]
        ELSE [usuarios |-> us, codigo |-> SinCodigo, intentos |-> MAX_INTENTOS]

\* generar_y_asignar_codigo_referido: the first free candidate of the draw is
\* assigned; when all are taken, the code derived from the clock is assigned
\* without a look at the store
generar_y_asignar_codigo_referido(us, wa_id, sorteo, segundos) ==
    LET i == PrimerDisponible(us, sorteo, 1)
    IN  IF i > 0
        THEN [usuarios |-> asignar_codigo_referido(us, wa_id, sorteo[i]),
              codigo |-> sorteo[i], intentos |-> i]
        ELSE [usuarios |-> asignar_codigo_referido(us, wa_id, codigo_timestamp(segundos)),
              codigo |-> codigo_timestamp(segundos), intentos |-> MAX_INTENTOS]

\* procesar_codigo_referido; referidor is the document found for the code,
\* Ninguno when there is none
procesar_codigo_referido(us, t, wa_id, codigo_referidor, referidor) ==
    IF referidor = Ninguno
    THEN [usuarios |-> us, exito |-> FALSE, referidor_id |-> Ninguno]
    ELSE LET r == us[referidor]
             nueva_fecha ==
                 IF r.fecha_expiracion_premium.k # "None" /\ r.es_premium
                 THEN extender_fecha_expiracion_premium(r.fecha_expiracion_premium,
                                                        DIAS_PREMIUM, t)
                 ELSE calcular_fecha_expiracion_premium(t, DIAS_PREMIUM)
         IN  [usuarios |-> activar_premium(
                               incrementar_referidos(
                                   registrar_referido(us, wa_id, codigo_referidor),
                                   referidor),
                               referidor, nueva_fecha),
              exito |-> TRUE, referidor_id |-> referidor]

\* str.upper() on the letters the texts below use
Mayuscula(c) ==
    CASE c = "a" -> "A" [] c = "b" -> "B" [] c = "c" -> "C" [] c = "l" -> "L"
      [] c = "r" -> "R" [] c = "s" -> "S" [] c = "t" -> "T" [] OTHER -> c

Mayusculas(s) == [i \in 1..Len(s) |-> Mayuscula(s[i])]

SALTAR == <<"S", "A", "L", "T", "A", "R">>
ABC123 == <<"A", "B", "C", "1", "2", "3">>
SB0000 == <<"S", "B", "0", "0", "0", "0">>
SB0001 == <<"S", "B", "0", "0", "0", "1">>

\* what a registering user types: "saltar", " abc123", "SB0000" and "ZZZ999"
Textos ==
    {<<"s", "a", "l", "t", "a", "r">>, <<" ", "a", "b", "c", "1", "2", "3">>,
     SB0000, <<"Z", "Z", "Z", "9", "9", "9">>}

\* the codes random.choices produces in the model
Candidatos == {ABC123, SB0000, SB0001}

\* the draws of one call: a candidate repeated n times, then another one, for
\* n = 0, 1, MAX_INTENTOS - 1 and MAX_INTENTOS
Sorteos ==
    {[i \in 1..MAX_INTENTOS |-> IF i <= n THEN c1 ELSE c2] :
        n \in {0, 1, MAX_INTENTOS - 1, MAX_INTENTOS}, c1 \in Candidatos, c2 \in Candidatos}

\* int(time.time()) at the call
Segundos == {0, 1, PERIODO}

Registrantes == 1..NumRegistrantes

\* handle_usuario_nombre for a text message. In the state esperando_nombre the
\* name is stored and the user is asked for a code; in the state
\* esperando_codigo_referido the user sends SALTAR or a referral code.
handle_usuario_nombre(u, texto, sorteo, segundos, referidor) ==
    IF usuarios[u].estado_registro = "esperando_nombre"
    THEN /\ usuarios' = actualizar_estado_registro(actualizar_nombre(usuarios, u), u,
                                                    "esperando_codigo_referido")
         /\ ultimo' = Resultado("nombre", u, Ninguno, "PideCodigo", 0, 0, 0,
                                SetToBag({Mensaje(u, "solicitar_codigo", SinCodigo, 0)}))
    ELSE IF usuarios[u].estado_registro # "esperando_codigo_referido"
    THEN /\ usuarios' = usuarios
         /\ ultimo' = Resultado("nombre", u, Ninguno, "ninguno", 0, 0, 0, EmptyBag)
    ELSE IF Mayusculas(texto) = SALTAR
    THEN LET gen == generar_y_asignar_codigo_referido(usuarios, u, sorteo, segundos)
         IN  /\ usuarios' = actualizar_estado_registro(gen.usuarios, u, "completo")
             /\ ultimo' = [Resultado("registro", u, Ninguno, "Registrado", gen.intentos,
                                     0, 0, SetToBag({Mensaje(u, "registro", gen.codigo, 0)}))
                              EXCEPT !.codigo = gen.codigo]
    ELSE LET proc == procesar_codigo_referido(usuarios, ahora, u, Mayusculas(texto),
                                              referidor)
             gen == generar_y_asignar_codigo_referido(proc.usuarios, u, sorteo, segundos)
         IN  IF proc.exito
             THEN /\ usuarios' = actualizar_estado_registro(gen.usuarios, u, "completo")
                  /\ ultimo' = [Resultado("registro", u, Ninguno, "Referido", gen.intentos,
                                     0, 0, SetToBag({Mensaje(u, "registro", gen.codigo, 0)}))
                                   EXCEPT !.codigo = gen.codigo,
                                          !.canjeado = Mayusculas(texto),
                                          !.referidor = proc.referidor_id]
             ELSE /\ usuarios' = proc.usuarios
                  /\ ultimo' = [Resultado("registro", u, Ninguno, "CodigoInvalido", 0,
                                     0, 0, SetToBag({Mensaje(u, "codigo_invalido",
                                                             SinCodigo, 0)}))
                                   EXCEPT !.canjeado = Mayusculas(texto)]

\* the text is compared only in the state esperando_codigo_referido
TextosLeidos(u) ==
    IF usuarios[u].estado_registro = "esperando_codigo_referido" THEN Textos
    ELSE {<<"s", "a", "l", "t", "a", "r">>}

\* candidates are drawn only when a code is generated: after SALTAR or after
\* a code some document holds
SorteosLeidos(u, texto) ==
    IF /\ usuarios[u].estado_registro = "esperando_codigo_referido"
       /\ \/ Mayusculas(texto) = SALTAR
          \/ buscar_por_codigo_referido(usuarios, Mayusculas(texto)) # {}
    THEN Sorteos
    ELSE {[i \in 1..MAX_INTENTOS |-> ABC123]}

\* the clock is read only when every candidate drawn is taken
SegundosLeidos(u, texto, sorteo) ==
    IF sorteo \in SorteosLeidos(u, texto) /\ SorteosLeidos(u, texto) = Sorteos
          /\ PrimerDisponible(usuarios, sorteo, 1) = 0
    THEN Segundos
    ELSE {0}

\* handle_auth for a user whose registration is not complete
RegistrarUsuario ==
    \E u \in Registrantes :
      \E texto \in TextosLeidos(u) :
        \E sorteo \in SorteosLeidos(u, Strip(texto)) :
          \E segundos \in SegundosLeidos(u, Strip(texto), sorteo) :
            /\ usuarios[u].estado_registro # "completo"
            /\ \E referidor \in
                  IF buscar_por_codigo_referido(usuarios, Mayusculas(Strip(texto))) = {}
                  THEN {Ninguno}
                  ELSE buscar_por_codigo_referido(usuarios, Mayusculas(Strip(texto))) :
                     handle_usuario_nombre(u, Strip(texto), sorteo, segundos, referidor)
            /\ UNCHANGED <<parqueaderos, reportes, suscripciones, ahora, pc, leido>>
            /\ UNCHANGED <<mensajes_conversacion, agents_cache>>

\* handle_message for a registered user: handle_auth returns the user as it is
\* and the text goes to the agent, whatever it says
Interactuar ==
    \E u \in Registrantes :
        /\ usuarios[u].estado_registro = "completo"
        /\ ultimo' = Resultado("interaccion", u, Ninguno, "Agente", 0, 0, 0, EmptyBag)
        /\ UNCHANGED <<parqueaderos, reportes, suscripciones, usuarios, ahora, pc, leido>>
        /\ UNCHANGED <<mensajes_conversacion, agents_cache>>

\* user 1 is registered, holds ABC123 and has one day of premium left; user 2
\* has been created and asked for a name; the other users have given a name
\* and not yet a code
InitReferidos ==
    /\ parqueaderos = [p \in Parqueaderos |-> ParqueaderoNuevo(TRUE)]
    /\ reportes = EmptyBag
    /\ suscripciones = EmptyBag
    /\ usuarios = [d \in Conductores |->
                      IF d = 1 THEN UsuarioRegistrado(ABC123, 1)
                      ELSE IF d = 2 THEN UsuarioSinCodigo
                      ELSE UsuarioConNombre]
    /\ ahora = 0
    /\ ultimo = Resultado("ninguna", 0, 0, "ninguno", 0, 0, 0, EmptyBag)
    /\ pc = [d \in Conductores |-> "inactivo"]
    /\ leido = [d \in Conductores |-> 0]
    /\ mensajes_conversacion = <<>>
    /\ agents_cache = {}

NextReferidos == RegistrarUsuario \/ Interactuar \/ PasaTiempo

SpecReferidos == InitReferidos /\ [][NextReferidos]_vars

\* ------------------------------------------------- access checks over time
\* an id no document has
Desconocido == NumConductores + 1

\* the four fields verificar_acceso_premium returns
RegistroDeAcceso(r) ==
    [tiene_acceso |-> r.tiene_acceso, es_premium |-> r.es_premium,
     fecha_expiracion |-> r.fecha_expiracion, dias_restantes |-> r.dias_restantes]

\* one call of verificar_acceso_premium, for a registrant or an unknown id
VerificarAcceso ==
    \E user_id \in Registrantes \cup {Desconocido} :
        LET r == verificar_acceso_premium(usuarios, ahora, user_id)
        IN  /\ usuarios' = r.usuarios
            /\ ultimo' = [Resultado("acceso", user_id, Ninguno, "ninguno", 0, 0, 0, EmptyBag)
                             EXCEPT !.acceso = RegistroDeAcceso(r)]
            /\ UNCHANGED <<parqueaderos, reportes, suscripciones, ahora, pc, leido>>
            /\ UNCHANGED <<mensajes_conversacion, agents_cache>>

NextAcceso == RegistrarUsuario \/ Interactuar \/ VerificarAcceso \/ PasaTiempo

SpecAcceso == InitReferidos /\ [][NextAcceso]_vars

\* ------------------------- an access check interleaved with registrations
\* the two fields of the user document verificar_acceso_premium decides on
Lectura(es_premium, fecha_expiracion_premium) ==
    [es_premium |-> es_premium, fecha_expiracion_premium |-> fecha_expiracion_premium]

SinLectura == Lectura(FALSE, SinFecha)

\* find_by_id of verificar_acceso_premium. A document that is not premium or
\* has no expiration leads to no further access to the store, and the call
\* ends here; otherwise the document read is kept for the rest of the call.
\* One access check is in flight at a time.
LeerAcceso ==
    \E r \in Registrantes :
        /\ \A d \in Conductores : pc[d] = "inactivo"
        /\ IF usuarios[r].es_premium /\ usuarios[r].fecha_expiracion_premium.k # "None"
           THEN /\ pc' = [pc EXCEPT ![r] = "leido"]
                /\ leido' = [leido EXCEPT ![r] = Lectura(usuarios[r].es_premium,
                                                  usuarios[r].fecha_expiracion_premium)]
                /\ ultimo' = Resultado("acceso_lee", r, Ninguno, "ninguno", 0, 0, 0, EmptyBag)
           ELSE /\ UNCHANGED <<pc, leido>>
                /\ ultimo' = [Resultado("acceso", r, Ninguno, "ninguno", 0, 0, 0, EmptyBag)
                                 EXCEPT !.acceso =
                                     [SinAcceso EXCEPT
                                        !.es_premium = usuarios[r].es_premium,
                                        !.fecha_expiracion =
                                            usuarios[r].fecha_expiracion_premium]]
        /\ UNCHANGED <<parqueaderos, reportes, suscripciones, usuarios, ahora>>
        /\ UNCHANGED <<mensajes_conversacion, agents_cache>>

\* the rest of verificar_acceso_premium: the expiration read is compared with
\* the clock, and desactivar_premium is written when it has passed
ConcluirAcceso ==
    \E r \in Registrantes :
        /\ pc[r] = "leido"
        /\ LET acceso == verificar_premium_activo(leido[r].fecha_expiracion_premium, ahora)
           IN  /\ usuarios' = IF ~acceso /\ leido[r].es_premium
                              THEN desactivar_premium(usuarios, r)
                              ELSE usuarios
               /\ ultimo' = [Resultado("acceso", r, Ninguno, "ninguno", 0, 0, 0, EmptyBag)
                                EXCEPT !.acceso =
                                    [tiene_acceso |-> acceso,
                                     es_premium |-> leido[r].es_premium,
                                     fecha_expiracion |-> leido[r].fecha_expiracion_premium,
                                     dias_restantes |->
                                         IF acceso
                                         THEN calcular_dias_restantes(
                                                  leido[r].fecha_expiracion_premium, ahora)
                                         ELSE 0]]
        /\ pc' = [pc EXCEPT ![r] = "inactivo"]
        /\ leido' = [leido EXCEPT ![r] = SinLectura]
        /\ UNCHANGED <<parqueaderos, reportes, suscripciones, ahora>>
        /\ UNCHANGED <<mensajes_conversacion, agents_cache>>

\* user 1 is registered with one day of premium left; the other users have
\* given a name and not yet a code; no access check is in flight
InitCarrera ==
    /\ parqueaderos = [p \in Parqueaderos |-> ParqueaderoNuevo(TRUE)]
    /\ reportes = EmptyBag
    /\ suscripciones = EmptyBag
    /\ usuarios = [d \in Conductores |->
                      IF d = 1 THEN UsuarioRegistrado(ABC123, 1) ELSE UsuarioConNombre]
    /\ ahora = 0
    /\ ultimo = Resultado("ninguna", 0, 0, "ninguno", 0, 0, 0, EmptyBag)
    /\ pc = [d \in Conductores |-> "inactivo"]
    /\ leido = [d \in Conductores |-> SinLectura]
    /\ mensajes_conversacion = <<>>
    /\ agents_cache = {}

NextCarrera == RegistrarUsuario \/ LeerAcceso \/ ConcluirAcceso \/ PasaTiempo

SpecCarrera == InitCarrera /\ [][NextCarrera]_vars

\* ------------------------------------------------ time operations applied
\* the timestamps labelled: half a day apart, and the ones that do not parse
Marcas == {Fecha(i * (DIA \div 2)) : i \in 0..(NumMarcas - 1)} \cup {SinFecha, FechaMala}

\* ages in seconds around every threshold and its double; one in the future
Edades ==
    {0 - 1, 0, 1}
      \cup UNION {{b - 1, b, b + 1, 2 * b - 1, 2 * b} : b \in {MINUTO, HORA, DIA, SEMANA}}

\* the expirations handed to the premium operations, in days
Expiraciones == {Fecha(t) : t \in 0..MaxTiempo} \cup {SinFecha, FechaMala}

\* tiempo_relativo of a timestamp, read at a clock edad seconds (and maybe
\* half a second more) later
TiempoRelativo ==
    \E marca \in Marcas, edad \in Edades, medio \in {0, 1} :
        LET reloj == 2 * (marca.t + edad) + medio
        IN  /\ ultimo' = [Resultado("tiempo_relativo", 0, 0, "ninguno", 0, 0, 0, EmptyBag)
                             EXCEPT !.marca = marca, !.reloj = reloj,
                                    !.etiqueta = tiempo_relativo(marca, reloj)]
            /\ UNCHANGED <<parqueaderos, reportes, suscripciones, usuarios, ahora, pc, leido>>
            /\ UNCHANGED <<mensajes_conversacion, agents_cache>>

VerificarPremiumActivo ==
    \E marca \in Expiraciones :
        /\ ultimo' = [Resultado("premium_activo", 0, 0, "ninguno", 0, 0, 0, EmptyBag)
                         EXCEPT !.marca = marca,
                                !.activo = verificar_premium_activo(marca, ahora)]
        /\ UNCHANGED <<parqueaderos, reportes, suscripciones, usuarios, ahora, pc, leido>>
        /\ UNCHANGED <<mensajes_conversacion, agents_cache>>

CalcularDiasRestantes ==
    \E marca \in Expiraciones :
        /\ ultimo' = [Resultado("dias_restantes", 0, 0, "ninguno",
                                calcular_dias_restantes(marca, ahora), 0, 0, EmptyBag)
                         EXCEPT !.marca = marca]
        /\ UNCHANGED <<parqueaderos, reportes, suscripciones, usuarios, ahora, pc, leido>>
        /\ UNCHANGED <<mensajes_conversacion, agents_cache>>

ExtenderFecha ==
    \E marca \in Expiraciones :
        /\ ultimo' = [Resultado("extender", 0, 0, "ninguno", 0, 0, 0, EmptyBag)
                         EXCEPT !.marca = marca,
                                !.fecha = extender_fecha_expiracion_premium(
                                              marca, DIAS_PREMIUM, ahora)]
        /\ UNCHANGED <<parqueaderos, reportes, suscripciones, usuarios, ahora, pc, leido>>
        /\ UNCHANGED <<mensajes_conversacion, agents_cache>>

\* user 1 is registered and premium, with any of the expirations stored
InitTiempo ==
    /\ parqueaderos = [p \in Parqueaderos |-> ParqueaderoNuevo(TRUE)]
    /\ reportes = EmptyBag
    /\ suscripciones = EmptyBag
    /\ \E f \in Expiraciones :
          usuarios = [d \in Conductores |->
                         IF d = 1
                         THEN [UsuarioRegistrado(ABC123, 1)
                                  EXCEPT !.fecha_expiracion_premium = f]
                         ELSE UsuarioConNombre]
    /\ ahora = 0
    /\ ultimo = Resultado("ninguna", 0, 0, "ninguno", 0, 0, 0, EmptyBag)
    /\ pc = [d \in Conductores |-> "inactivo"]
    /\ leido = [d \in Conductores |-> 0]
    /\ mensajes_conversacion = <<>>
    /\ agents_cache = {}

NextTiempo ==
    \/ TiempoRelativo
    \/ VerificarPremiumActivo
    \/ CalcularDiasRestantes
    \/ ExtenderFecha
    \/ VerificarAcceso
    \/ PasaTiempo

SpecTiempo == InitTiempo /\ [][NextTiempo]_vars

\* --------------------------------------- concurrent reports on one lot
\* Each driver's call is a sequence of storage operations, one step each; the
\* steps of different drivers interleave freely (no lock is taken anywhere).
LoteDisputado == CHOOSE p \in Parqueaderos : \A q \in Parqueaderos : p <= q

EnReposo == {"inactivo", "pendiente", "excepcion", "activado"}

\* find_by_id and verificar_reporte_existente: a duplicate returns at once
PasoVerificar(d) ==
    /\ pc[d] \in EnReposo
    /\ ExisteParqueadero(parqueaderos, LoteDisputado)
    /\ pc' = IF verificar_reporte_existente(reportes, LoteDisputado, d)
             THEN pc ELSE [pc EXCEPT ![d] = "crear"]
    /\ UNCHANGED <<parqueaderos, reportes, suscripciones, usuarios, ahora, ultimo, leido>>
    /\ UNCHANGED <<mensajes_conversacion, agents_cache>>

\* crear_reporte
PasoCrear(d) ==
    /\ pc[d] = "crear"
    /\ reportes' = crear_reporte(reportes, LoteDisputado, d)
    /\ pc' = [pc EXCEPT ![d] = "contar"]
    /\ UNCHANGED <<parqueaderos, suscripciones, usuarios, ahora, ultimo, leido>>
    /\ UNCHANGED <<mensajes_conversacion, agents_cache>>

\* contar_reportes_activos after the insert; below the threshold the call ends
PasoContar(d) ==
    /\ pc[d] = "contar"
    /\ leido' = [leido EXCEPT ![d] = contar_reportes_activos(reportes, LoteDisputado)]
    /\ IF leido'[d] >= UMBRAL
       THEN /\ pc' = [pc EXCEPT ![d] = "activar"]
            /\ UNCHANGED usuarios
       ELSE /\ pc' = [pc EXCEPT ![d] = "pendiente"]
            /\ usuarios' = recordar_codigo_referido(usuarios, ahora, d).usuarios
    /\ UNCHANGED <<parqueaderos, reportes, suscripciones, ahora, ultimo>>
    /\ UNCHANGED <<mensajes_conversacion, agents_cache>>

\* the activation: the lot transition and the fan-out, then mark and purge
PasoActivar(d) ==
    LET act == actualizar_cupos_con_notificacion(
                   parqueaderos, suscripciones, LoteDisputado, AlgunosCupos, TRUE,
                   ReportadoPorUsuarios, DisponibleSegunReportes)
    IN  /\ pc[d] = "activar"
        /\ parqueaderos' = act.parqueaderos
        /\ IF act.excepcion
           THEN /\ pc' = [pc EXCEPT ![d] = "excepcion"]
                /\ UNCHANGED <<reportes, usuarios>>
           ELSE /\ pc' = [pc EXCEPT ![d] = "activado"]
                /\ reportes' = limpiar_reportes_parqueadero(
                       marcar_reportes_como_procesados(reportes, LoteDisputado),
                       LoteDisputado)
                /\ usuarios' = recordar_codigo_referido(usuarios, ahora, d).usuarios
        /\ UNCHANGED <<suscripciones, ahora, ultimo, leido>>
        /\ UNCHANGED <<mensajes_conversacion, agents_cache>>

Verificar == \E d \in Conductores : PasoVerificar(d)
Crear == \E d \in Conductores : PasoCrear(d)
Contar == \E d \in Conductores : PasoContar(d)
Activar == \E d \in Conductores : PasoActivar(d)

NextConc == Verificar \/ Crear \/ Contar \/ Activar

SpecConc == Init /\ [][NextConc]_vars

\* ------------------------------------- two redemptions of one code, by steps
\* the referrer, and the two new users who type the referrer's code
Referidor == 1
Canjeadores == {2, 3}

\* the referrer's premium runs beyond the time the model covers
ExpiraReferidor == MaxTiempo + 1

\* the document buscar_por_codigo_referido returned to a call
ReferidorLeido(id, es_premium, fecha_expiracion_premium) ==
    [id |-> id, es_premium |-> es_premium,
     fecha_expiracion_premium |-> fecha_expiracion_premium]

\* procesar_codigo_referido up to find_one: the document found is kept
PasoBuscarReferidor(wa_id, codigo_referidor) ==
    /\ pc[wa_id] = "inactivo"
    /\ usuarios[wa_id].referido_por = SinCodigo
    /\ LET encontrados == buscar_por_codigo_referido(usuarios, codigo_referidor)
       IN  IF encontrados = {}
           THEN /\ UNCHANGED <<pc, leido>>
                /\ ultimo' = Resultado("canje", wa_id, Ninguno, "NoValido", 0, 0, 0,
                                       EmptyBag)
           ELSE \E r \in encontrados :
                   /\ pc' = [pc EXCEPT ![wa_id] = "buscado"]
                   /\ leido' = [leido EXCEPT ![wa_id] =
                                   ReferidorLeido(r, usuarios[r].es_premium,
                                                  usuarios[r].fecha_expiracion_premium)]
                   /\ ultimo' = Resultado("canje_busca", wa_id, Ninguno, "ninguno",
                                          0, 0, 0, EmptyBag)
    /\ UNCHANGED <<parqueaderos, reportes, suscripciones, usuarios, ahora>>
    /\ UNCHANGED <<mensajes_conversacion, agents_cache>>

\* registrar_referido
PasoRegistrarReferido(wa_id, codigo_referidor) ==
    /\ pc[wa_id] = "buscado"
    /\ usuarios' = registrar_referido(usuarios, wa_id, codigo_referidor)
    /\ pc' = [pc EXCEPT ![wa_id] = "registrado"]
    /\ ultimo' = Resultado("canje_registra", wa_id, Ninguno, "ninguno", 0, 0, 0, EmptyBag)
    /\ UNCHANGED <<parqueaderos, reportes, suscripciones, ahora, leido>>
    /\ UNCHANGED <<mensajes_conversacion, agents_cache>>

\* incrementar_referidos: one $inc on the referrer's document
PasoIncrementarReferidos(wa_id) ==
    /\ pc[wa_id] = "registrado"
    /\ usuarios' = incrementar_referidos(usuarios, leido[wa_id].id)
    /\ pc' = [pc EXCEPT ![wa_id] = "incrementado"]
    /\ ultimo' = Resultado("canje_incrementa", wa_id, Ninguno, "ninguno", 0, 0, 0,
                           EmptyBag)
    /\ UNCHANGED <<parqueaderos, reportes, suscripciones, ahora, leido>>
    /\ UNCHANGED <<mensajes_conversacion, agents_cache>>

\* the new expiration computed from the document found at the start, then
\* activar_premium
PasoActivarPremium(wa_id) ==
    /\ pc[wa_id] = "incrementado"
    /\ LET referidor == leido[wa_id]
           nueva_fecha ==
               IF referidor.fecha_expiracion_premium.k # "None" /\ referidor.es_premium
               THEN extender_fecha_expiracion_premium(referidor.fecha_expiracion_premium,
                                                      DIAS_PREMIUM, ahora)
               ELSE calcular_fecha_expiracion_premium(ahora, DIAS_PREMIUM)
       IN  /\ usuarios' = activar_premium(usuarios, referidor.id, nueva_fecha)
           /\ ultimo' = [Resultado("canje", wa_id, Ninguno, "Canjeado", 0, 0, 0, EmptyBag)
                            EXCEPT !.referidor = referidor.id, !.fecha = nueva_fecha]
    /\ pc' = [pc EXCEPT ![wa_id] = "canjeado"]
    /\ leido' = [leido EXCEPT ![wa_id] = 0]
    /\ UNCHANGED <<parqueaderos, reportes, suscripciones, ahora>>
    /\ UNCHANGED <<mensajes_conversacion, agents_cache>>

BuscarReferidor == \E u \in Canjeadores : PasoBuscarReferidor(u, ABC123)

RegistrarReferido == \E u \in Canjeadores : PasoRegistrarReferido(u, ABC123)

IncrementarReferidos == \E u \in Canjeadores : PasoIncrementarReferidos(u)

ActivarPremium == \E u \in Canjeadores : PasoActivarPremium(u)

InitCanje ==
    /\ parqueaderos = [p \in Parqueaderos |-> ParqueaderoNuevo(TRUE)]
    /\ reportes = EmptyBag
    /\ suscripciones = EmptyBag
    /\ usuarios = [d \in Conductores |->
                      IF d = Referidor THEN UsuarioRegistrado(ABC123, ExpiraReferidor)
                      ELSE UsuarioConNombre]
    /\ ahora = 0
    /\ ultimo = Resultado("ninguna", 0, 0, "ninguno", 0, 0, 0, EmptyBag)
    /\ pc = [d \in Conductores |-> "inactivo"]
    /\ leido = [d \in Conductores |-> 0]
    /\ mensajes_conversacion = <<>>
    /\ agents_cache = {}

NextCanje ==
    \/ BuscarReferidor
    \/ RegistrarReferido
    \/ IncrementarReferidos
    \/ ActivarPremium
    \/ PasaTiempo

SpecCanje == InitCanje /\ [][NextCanje]_vars

\* ----------------------------------------- registration, write by write
\* handle_usuario_nombre in the state esperando_nombre, first write:
\* actualizar_nombre
PasoGuardarNombre(u) ==
    /\ pc[u] = "inactivo"
    /\ usuarios[u].estado_registro = "esperando_nombre"
    /\ usuarios' = actualizar_nombre(usuarios, u)
    /\ pc' = [pc EXCEPT ![u] = "nombre_guardado"]
    /\ ultimo' = Resultado("nombre_guarda", u, Ninguno, "ninguno", 0, 0, 0, EmptyBag)
    /\ UNCHANGED <<parqueaderos, reportes, suscripciones, ahora, leido>>
    /\ UNCHANGED <<mensajes_conversacion, agents_cache>>

\* the request for a code is sent, then the second write:
\* actualizar_estado_registro
PasoPedirCodigo(u) ==
    /\ pc[u] = "nombre_guardado"
    /\ usuarios' = actualizar_estado_registro(usuarios, u, "esperando_codigo_referido")
    /\ pc' = [pc EXCEPT ![u] = "inactivo"]
    /\ ultimo' = Resultado("nombre", u, Ninguno, "PideCodigo", 0, 0, 0,
                           SetToBag({Mensaje(u, "solicitar_codigo", SinCodigo, 0)}))
    /\ UNCHANGED <<parqueaderos, reportes, suscripciones, ahora, leido>>
    /\ UNCHANGED <<mensajes_conversacion, agents_cache>>

\* handle_usuario_nombre in the state esperando_codigo_referido, up to the
\* writes of procesar_codigo_referido: SALTAR writes nothing, a code nobody
\* holds ends the message
PasoCanjear(u, texto, referidor) ==
    /\ pc[u] = "inactivo"
    /\ usuarios[u].estado_registro = "esperando_codigo_referido"
    /\ LET proc == procesar_codigo_referido(usuarios, ahora, u, Mayusculas(texto),
                                            referidor)
       IN  IF Mayusculas(texto) = SALTAR
           THEN /\ usuarios' = usuarios
                /\ pc' = [pc EXCEPT ![u] = "por_generar"]
                /\ ultimo' = Resultado("registro_lee", u, Ninguno, "Saltar", 0, 0, 0,
                                       EmptyBag)
           ELSE IF proc.exito
           THEN /\ usuarios' = proc.usuarios
                /\ pc' = [pc EXCEPT ![u] = "por_generar"]
                /\ ultimo' = [Resultado("registro_lee", u, Ninguno, "Canjeado", 0, 0, 0,
                                        EmptyBag)
                                 EXCEPT !.canjeado = Mayusculas(texto),
                                        !.referidor = proc.referidor_id]
           ELSE /\ usuarios' = proc.usuarios
                /\ pc' = pc
                /\ ultimo' = [Resultado("registro", u, Ninguno, "CodigoInvalido", 0,
                                        0, 0, SetToBag({Mensaje(u, "codigo_invalido",
                                                                SinCodigo, 0)}))
                                 EXCEPT !.canjeado = Mayusculas(texto)]
    /\ UNCHANGED <<parqueaderos, reportes, suscripciones, ahora, leido>>
    /\ UNCHANGED <<mensajes_conversacion, agents_cache>>

\* generar_y_asignar_codigo_referido
PasoGenerarCodigo(u, sorteo, segundos) ==
    /\ pc[u] = "por_generar"
    /\ LET gen == generar_y_asignar_codigo_referido(usuarios, u, sorteo, segundos)
       IN  /\ usuarios' = gen.usuarios
           /\ ultimo' = [Resultado("registro_genera", u, Ninguno, "ninguno",
                                   gen.intentos, 0, 0, EmptyBag)
                            EXCEPT !.codigo = gen.codigo]
    /\ pc' = [pc EXCEPT ![u] = "codigo_asignado"]
    /\ UNCHANGED <<parqueaderos, reportes, suscripciones, ahora, leido>>
    /\ UNCHANGED <<mensajes_conversacion, agents_cache>>

\* actualizar_estado_registro(..., "completo") and the confirmation
PasoCompletar(u) ==
    /\ pc[u] = "codigo_asignado"
    /\ usuarios' = actualizar_estado_registro(usuarios, u, "completo")
    /\ pc' = [pc EXCEPT ![u] = "inactivo"]
    /\ ultimo' = [Resultado("registro", u, Ninguno, "Registrado", 0, 0, 0,
                            SetToBag({Mensaje(u, "registro",
                                              usuarios[u].codigo_referido, 0)}))
                     EXCEPT !.codigo = usuarios[u].codigo_referido]
    /\ UNCHANGED <<parqueaderos, reportes, suscripciones, ahora, leido>>
    /\ UNCHANGED <<mensajes_conversacion, agents_cache>>

GuardarNombre == \E u \in Registrantes : PasoGuardarNombre(u)

PedirCodigo == \E u \in Registrantes : PasoPedirCodigo(u)

Canjear ==
    \E u \in Registrantes, texto \in Textos :
        \E referidor \in
              IF buscar_por_codigo_referido(usuarios, Mayusculas(Strip(texto))) = {}
              THEN {Ninguno}
              ELSE buscar_por_codigo_referido(usuarios, Mayusculas(Strip(texto))) :
            PasoCanjear(u, Strip(texto), referidor)

GenerarCodigo ==
    \E u \in Registrantes, sorteo \in Sorteos :
        \E segundos \in IF PrimerDisponible(usuarios, sorteo, 1) = 0 THEN Segundos ELSE {0} :
            PasoGenerarCodigo(u, sorteo, segundos)

Completar == \E u \in Registrantes : PasoCompletar(u)

\* the messages of different users are handled side by side, and a user may
\* write again while an earlier message is in the middle of its handler
NextRegistro ==
    \/ GuardarNombre
    \/ PedirCodigo
    \/ Canjear
    \/ GenerarCodigo
    \/ Completar
    \/ Interactuar

SpecRegistro == InitReferidos /\ [][NextRegistro]_vars

\* ------------------------------------------------- conversation history
\* WhatsApp ids of the users who talk to the agent: one id is a prefix of another
U57 == <<"5", "7">>
U571 == <<"5", "7", "1">>
U58 == <<"5", "8">>
UsuariosChat == {U57, U571, U58}

\* the rol stored for each of them; the last one is a rol the service does not know
RolDe(user_id) ==
    IF user_id = U57 THEN "conductor"
    ELSE IF user_id = U571 THEN "gestor_parqueadero"
    ELSE "administrador"

MensajeConversacion(user_id, rol, contenido, timestamp) ==
    [user_id |-> user_id, rol |-> rol, contenido |-> contenido,
     timestamp |-> timestamp, activo |-> TRUE]

\* insert_one: the position in the collection stands for the _id
guardar_mensaje_usuario(ms, user_id, contenido, t) ==
    Append(ms, MensajeConversacion(user_id, "user", contenido, t))

guardar_mensaje_asistente(ms, user_id, contenido, t) ==
    Append(ms, MensajeConversacion(user_id, "assistant", contenido, t))

MensajesDe(ms, user_id) == {i \in DOMAIN ms : ms[i].user_id = user_id}

ActivosDe(ms, user_id) == {i \in MensajesDe(ms, user_id) : ms[i].activo}

\* sort("timestamp", -1): rows of one second come in insertion order or in the
\* opposite order
Antes(ms, i, j, inverso) ==
    \/ ms[i].timestamp > ms[j].timestamp
    \/ /\ ms[i].timestamp = ms[j].timestamp
       /\ IF inverso THEN i > j ELSE i < j

RECURSIVE OrdenDesc(_, _, _)
OrdenDesc(ms, ids, inverso) ==
    IF ids = {}
    THEN <<>>
    ELSE LET primero == CHOOSE i \in ids : \A j \in ids \ {i} : Antes(ms, i, j, inverso)
         IN  <<primero>> \o OrdenDesc(ms, ids \ {primero}, inverso)

Primeros(s, n) == SubSeq(s, 1, IF n < Len(s) THEN n ELSE Len(s))

Ultimos(s, n) == SubSeq(s, IF Len(s) > n THEN Len(s) - n + 1 ELSE 1, Len(s))

Invertir(s) == [k \in 1..Len(s) |-> s[Len(s) + 1 - k]]

\* find(active rows of the user).sort(timestamp, -1).limit(limite * 2), reversed,
\* then mensajes[-limite * 2:]; the rows are given by their position
obtener_ultimos_mensajes(ms, user_id, limite, inverso) ==
    Ultimos(Invertir(Primeros(OrdenDesc(ms, ActivosDe(ms, user_id), inverso),
                              limite * 2)),
            limite * 2)

\* update_many on the active rows of the user
limpiar_conversacion(ms, user_id) ==
    [i \in DOMAIN ms |->
        IF ms[i].user_id = user_id /\ ms[i].activo
        THEN [ms[i] EXCEPT !.activo = FALSE]
        ELSE ms[i]]

\* the trimming that archives nothing
desactivar_mensajes_antiguos_sin_archivar(ms, user_id, mantener_ultimos, inverso) == ms

\* the active rows of the user, newest first; those after the first
\* mantener_ultimos are marked inactive
desactivar_mensajes_antiguos(ms, user_id, mantener_ultimos, inverso) ==
    LET mensajes_activos == OrdenDesc(ms, ActivosDe(ms, user_id), inverso)
        ids_a_desactivar ==
            {mensajes_activos[k] : k \in (mantener_ultimos + 1)..Len(mensajes_activos)}
    IN  IF Len(mensajes_activos) > mantener_ultimos
        THEN [i \in DOMAIN ms |->
                 IF i \in ids_a_desactivar THEN [ms[i] EXCEPT !.activo = FALSE] ELSE ms[i]]
        ELSE ms

\* ------------------------------------------------------------ agent service
\* f"{user_id}_{rol}"
ClaveDeCache(user_id, rol) == user_id \o <<"_", rol>>

\* str.startswith
startswith(s, prefijo) ==
    /\ Len(prefijo) <= Len(s)
    /\ SubSeq(s, 1, Len(prefijo)) = prefijo

RolesConocidos == {"conductor", "gestor_parqueadero"}

\* a message of the list handed to the agent: fila is the row it was built from,
\* 0 for the one built from the argument of the call
Entregado(rol, contenido, fila) == [rol |-> rol, contenido |-> contenido, fila |-> fila]

MensajesLangchain(ms, filas) ==
    SelectSeq([k \in 1..Len(filas) |->
                  Entregado(ms[filas[k]].rol, ms[filas[k]].contenido, filas[k])],
              LAMBDA e : e.rol \in {"user", "assistant"})

ResultadoChat(op, user_id, resultado, actual, previos, entregados) ==
    [Resultado(op, 0, Ninguno, resultado, 0, 0, 0, EmptyBag)
        EXCEPT !.usuario = user_id, !.actual = actual, !.previos = previos,
               !.entregados = entregados]

\* process_message: the user's message is stored paso seconds after the last
\* event and the agent answers demora seconds later, or raises (falla)
process_message(user_id, message, rol, paso, demora, falla, inverso_carga, inverso_archivo) ==
    LET t1 == ahora + paso
        ms1 == guardar_mensaje_usuario(mensajes_conversacion, user_id, message, t1)
        cache_key == ClaveDeCache(user_id, rol)
        previos == obtener_ultimos_mensajes(ms1, user_id, LIMITE, inverso_carga)
        langchain_messages ==
            MensajesLangchain(ms1, previos) \o <<Entregado("user", message, 0)>>
        t2 == t1 + demora
        ms2 == guardar_mensaje_asistente(ms1, user_id, "respuesta", t2)
    IN  IF cache_key \notin agents_cache /\ rol \notin RolesConocidos
        THEN /\ mensajes_conversacion' = ms1
             /\ agents_cache' = agents_cache
             /\ ahora' = t1
             /\ ultimo' = ResultadoChat("process_message", user_id, "RolNoReconocido",
                                        Len(ms1), <<>>, <<>>)
        ELSE IF falla
        THEN /\ mensajes_conversacion' = ms1
             /\ agents_cache' = agents_cache \cup {cache_key}
             /\ ahora' = t1
             /\ ultimo' = ResultadoChat("process_message", user_id, "Error",
                                        Len(ms1), previos, langchain_messages)
        ELSE /\ mensajes_conversacion' =
                    desactivar_mensajes_antiguos(ms2, user_id, MANTENER_ULTIMOS,
                                                 inverso_archivo)
             /\ agents_cache' = agents_cache \cup {cache_key}
             /\ ahora' = t2
             /\ ultimo' = ResultadoChat("process_message", user_id, "Respuesta",
                                        Len(ms1), previos, langchain_messages)

\* one user after another writes to the agent, each for a short while
ProcesarMensaje ==
    \E user_id \in UsuariosChat, demora \in 0..1, falla \in BOOLEAN :
        /\ falla => demora = 0
        /\ Cardinality(MensajesDe(mensajes_conversacion, user_id)) + 2 <= MaxAjenos
        /\ process_message(user_id, "hola", RolDe(user_id), 1, demora, falla, FALSE, FALSE)
        /\ UNCHANGED <<parqueaderos, reportes, suscripciones, usuarios, pc, leido>>

\* one driver keeps writing to the agent
Conversar ==
    \E demora \in 0..1, falla \in BOOLEAN, inverso_carga \in BOOLEAN,
       inverso_archivo \in BOOLEAN :
        /\ falla => demora = 0
        /\ Len(mensajes_conversacion) + 2 <= MaxMensajes
        /\ process_message(U57, "hola", RolDe(U57), 1, demora, falla,
                           inverso_carga, inverso_archivo)
        /\ UNCHANGED <<parqueaderos, reportes, suscripciones, usuarios, pc, leido>>

\* reset_conversation
reset_conversation(user_id) ==
    LET keys_to_delete == {key \in agents_cache : startswith(key, user_id)}
    IN  /\ agents_cache' = agents_cache \ keys_to_delete
        /\ mensajes_conversacion' = limpiar_conversacion(mensajes_conversacion, user_id)
        /\ ultimo' = ResultadoChat("reset_conversation", user_id, "Reiniciada", 0,
                                   <<>>, <<>>)

ReiniciarConversacion ==
    \E user_id \in UsuariosChat :
        /\ reset_conversation(user_id)
        /\ UNCHANGED <<parqueaderos, reportes, suscripciones, usuarios, ahora, pc, leido>>

\* get_conversation_context: one entry per row returned by the repository
get_conversation_context(user_id, inverso) ==
    LET mensajes == obtener_ultimos_mensajes(mensajes_conversacion, user_id, LIMITE, inverso)
    IN  /\ ultimo' = ResultadoChat("get_conversation_context", user_id, "Contexto", 0,
                                   mensajes, <<>>)
        /\ UNCHANGED <<mensajes_conversacion, agents_cache>>

ObtenerContexto ==
    \E user_id \in UsuariosChat, inverso \in BOOLEAN :
        /\ get_conversation_context(user_id, inverso)
        /\ UNCHANGED <<parqueaderos, reportes, suscripciones, usuarios, ahora, pc, leido>>

ConsultarContexto ==
    \E inverso \in BOOLEAN :
        /\ get_conversation_context(U57, inverso)
        /\ UNCHANGED <<parqueaderos, reportes, suscripciones, usuarios, ahora, pc, leido>>

NextConversacion == Conversar \/ ConsultarContexto

SpecConversacion == Init /\ [][NextConversacion]_vars

NextReinicio == ProcesarMensaje \/ ReiniciarConversacion \/ ObtenerContexto

SpecReinicio == Init /\ [][NextReinicio]_vars

\* ================================================================== claims
\* The ledger and the index read directly, without the repositories' queries.
TieneReporteVivo(rep, p, d) ==
    \E r \in DOMAIN rep : r.parqueadero_id = p /\ r.conductor_id = d /\ ~r.procesado

CuentaViva(rep, p) ==
    BagCardinality([r \in {x \in DOMAIN rep : x.parqueadero_id = p /\ ~x.procesado}
                      |-> rep[r]])

SuscritosA(sus, p) ==
    {d \in Conductores : \E r \in DOMAIN sus :
        r.activa /\ r.conductor_id = d /\ r.parqueadero_id \in {p, Ninguno}}

\* the last call was a report that inserted a row and read `ultimo.cuenta` after it
ReporteInsertado ==
    ultimo.op = "reportar" /\ ultimo.resultado \notin {"NotFound", "DuplicateReport"}

\* C1: the report that brings a lot's unprocessed count to the threshold of 5
\* activates the lot, and when it ends the lot's unprocessed count is 0.
C1_UmbralActivaYReinicia ==
    (ReporteInsertado /\ ultimo.cuenta = UMBRAL)
        => (ultimo.resultado = "Activated"
            /\ CuentaViva(reportes, ultimo.parqueadero) = 0)

\* C2: every report call ends by returning NotFound, DuplicateReport, Pending or
\* Activated; no exception leaves the activation sequence.
C2_SiempreUnResultado ==
    ultimo.op = "reportar"
        => ultimo.resultado \in {"NotFound", "DuplicateReport", "Pending", "Activated"}

\* C4: a report by a driver who already has an unprocessed report for the lot
\* returns DuplicateReport with the current count, inserts nothing, leaves the
\* lot and its count unchanged and sends nothing.
C4_DuplicadoNoCambia ==
    [][\A d \in Conductores, p \in Parqueaderos :
          (TieneReporteVivo(reportes, p, d) /\ ultimo'.op = "reportar"
             /\ ultimo'.quien = d /\ ultimo'.parqueadero = p)
          => (/\ ultimo'.resultado = "DuplicateReport"
              /\ ultimo'.cuenta = CuentaViva(reportes, p)
              /\ reportes' = reportes
              /\ CuentaViva(reportes', p) = CuentaViva(reportes, p)
              /\ parqueaderos' = parqueaderos
              /\ usuarios' = usuarios
              /\ ultimo'.mensajes = EmptyBag)]_vars

C4_Testigo ==
    ultimo.op = "reportar" /\ ultimo.resultado = "DuplicateReport" /\ ultimo.cuenta = 3

\* C5: the ledger holds at most one unprocessed report per (lot, reporter).
C5_UnReportePorPar ==
    \A r \in DOMAIN reportes : ~r.procesado => reportes[r] = 1

C5_Testigo ==
    /\ ultimo.op = "reportar" /\ ultimo.resultado = "DuplicateReport"
    /\ \A d \in Conductores : TieneReporteVivo(reportes, ultimo.parqueadero, d)

\* C6: a report that inserts a row and leaves the lot's count c below 5 returns
\* Pending with current_count = c and remaining = 5 - c, 1 <= c <= 4, and does
\* not touch the lot.
C6_PendienteCuentaYFaltantes ==
    [][(ultimo'.op = "reportar" /\ reportes' # reportes
          /\ CuentaViva(reportes', ultimo'.parqueadero) < UMBRAL)
       => (/\ ultimo'.resultado = "Pending"
           /\ ultimo'.cuenta = CuentaViva(reportes', ultimo'.parqueadero)
           /\ ultimo'.faltantes = UMBRAL - ultimo'.cuenta
           /\ ultimo'.cuenta >= 1 /\ ultimo'.cuenta <= UMBRAL - 1
           /\ parqueaderos' = parqueaderos)]_vars

C6_Testigo ==
    /\ ultimo.op = "reportar" /\ ultimo.resultado = "Pending"
    /\ ultimo.cuenta = 4 /\ ultimo.faltantes = 1

\* C7: a report for a lot id that resolves to no lot returns NotFound and
\* changes nothing: no row, no lot, no entitlement write, no message.
C7_NoEncontradoSinEfecto ==
    [][(ultimo'.op = "reportar" /\ ultimo'.parqueadero \notin DOMAIN parqueaderos)
       => (/\ ultimo'.resultado = "NotFound"
           /\ reportes' = reportes
           /\ parqueaderos' = parqueaderos
           /\ usuarios' = usuarios
           /\ suscripciones' = suscripciones
           /\ ultimo'.mensajes = EmptyBag)]_vars

C7_Testigo ==
    /\ ultimo.op = "reportar" /\ ultimo.resultado = "NotFound"
    /\ reportes # EmptyBag /\ suscripciones # EmptyBag

\* C8: the report that reaches the threshold returns a notification count equal
\* to the number of drivers subscribed to the lot or to all lots, each of whom
\* is sent one notification.
C8_NotificacionesIgualDestinatarios ==
    (ReporteInsertado /\ ultimo.cuenta >= UMBRAL)
        => (/\ ultimo.notificaciones
                 = Cardinality(SuscritosA(suscripciones, ultimo.parqueadero))
            /\ \A d \in SuscritosA(suscripciones, ultimo.parqueadero) :
                 CopiesIn(Mensaje(d, "cupo_liberado", ultimo.parqueadero, 0),
                          ultimo.mensajes) = 1)

\* C9: the drivers notified of a lot are the union of the drivers subscribed to
\* the lot and the drivers subscribed to all lots; a driver holding both
\* subscriptions is counted once and is sent one notification.
C9_DestinatariosSonLaUnion ==
    (ultimo.op = "actualizar_cupos" /\ ultimo.resultado = "Actualizado"
        /\ parqueaderos[ultimo.parqueadero].tiene_cupos)
        => (/\ ultimo.notificaciones
                 = Cardinality(SuscritosA(suscripciones, ultimo.parqueadero))
            /\ BagCardinality(ultimo.mensajes) = ultimo.notificaciones
            /\ \A d \in Conductores :
                 CopiesIn(Mensaje(d, "cupo_liberado", ultimo.parqueadero, 0),
                          ultimo.mensajes)
                   = IF d \in SuscritosA(suscripciones, ultimo.parqueadero) THEN 1 ELSE 0)

\* driver 1 holds the all-lots subscription and a subscription to lot 1, driver 2
\* is subscribed too, and the manager of lot 1 has just published a count
C9_Testigo ==
    /\ ultimo.op = "actualizar_cupos" /\ ultimo.resultado = "Actualizado"
    /\ ultimo.parqueadero = 1 /\ parqueaderos[1].tiene_cupos
    /\ BagIn(Suscripcion(1, Ninguno, TRUE), suscripciones)
    /\ BagIn(Suscripcion(1, 1, TRUE), suscripciones)
    /\ ultimo.notificaciones = 2

\* C10: when the call that reached the threshold ends, the lot has
\* tiene_cupos = true, the descriptor "Reportado por usuarios" and the fixed
\* state label, whatever it held before.
C10_ParqueaderoActivado ==
    (ReporteInsertado /\ ultimo.cuenta >= UMBRAL)
        => (/\ parqueaderos[ultimo.parqueadero].tiene_cupos = TRUE
            /\ parqueaderos[ultimo.parqueadero].rango_cupos = ReportadoPorUsuarios
            /\ parqueaderos[ultimo.parqueadero].estado_ocupacion
                 = DisponibleSegunReportes)

\* the lot was created without free spots (the seeded deployment)
C10_Testigo ==
    /\ ReporteInsertado /\ ultimo.cuenta >= UMBRAL
    /\ suscripciones = SuscripcionesSembradas
    /\ parqueaderos[ultimo.parqueadero].tiene_cupos

\* C11: the listing of a driver's reports holds one entry per unprocessed report
\* of the driver, each with the lot's unprocessed count, and changes nothing;
\* once a report has reached the threshold of a lot, no driver's listing holds
\* that lot any more.
C11_ListadoDeReportes ==
    /\ ultimo.op = "ver_mis_reportes"
         => \A p \in Parqueaderos :
              CopiesIn([parqueadero_id |-> p, reportes |-> CuentaViva(reportes, p)],
                       ultimo.lista)
                = IF TieneReporteVivo(reportes, p, ultimo.quien) THEN 1 ELSE 0
    /\ (ReporteInsertado /\ ultimo.cuenta >= UMBRAL)
         => \A d \in Conductores : \A e \in BagToSet(ver_mis_reportes(reportes, parqueaderos, d)) :
              e.parqueadero_id # ultimo.parqueadero

\* the user's record read directly: premium flag set and expiration still ahead
AccesoVigente(us, t, u) ==
    /\ us[u].es_premium
    /\ us[u].fecha_expiracion_premium.k = "fecha"
    /\ t < us[u].fecha_expiracion_premium.t

\* C12: a subscribe (to one lot or to all lots) by a user without access sends
\* the paywall message with the user's own referral code and referral count,
\* creates nothing and leaves every subscription row as it was, whether or not
\* the lot exists or the user is already subscribed.
C12_SinAccesoSoloPaywall ==
    [][\A u \in Suscriptores :
          (ultimo'.op \in {"suscribirse", "suscribirse_todos"} /\ ultimo'.quien = u
             /\ ~AccesoVigente(usuarios, ahora, u))
          => (/\ ultimo'.resultado = "Paywall"
              /\ ultimo'.mensajes
                   = SetToBag({Mensaje(u, "paywall", usuarios[u].codigo_referido,
                                       usuarios[u].numero_referidos)})
              /\ suscripciones' = suscripciones)]_vars

\* driver 2, without access and still subscribed to lot 1, asked for lot 1 again
C12_Testigo ==
    /\ ultimo.op = "suscribirse" /\ ultimo.resultado = "Paywall"
    /\ ultimo.quien = 2 /\ ultimo.parqueadero = 1
    /\ BagIn(Suscripcion(2, 1, TRUE), suscripciones)
    /\ ultimo.mensajes = SetToBag({Mensaje(2, "paywall", 2, 1)})

\* the rows of the index read directly
FilasDe(sus, u) == {r \in DOMAIN sus : r.conductor_id = u /\ r.activa /\ sus[r] > 0}

\* the rows of every driver but u are the same in both indexes
OtrosIguales(sus1, sus2, u) ==
    \A r \in DOMAIN sus1 \cup DOMAIN sus2 :
        r.conductor_id # u => CopiesIn(r, sus1) = CopiesIn(r, sus2)

\* C13: a subscribe to all lots by a driver with access and without an active
\* all-lots subscription leaves that driver with exactly one active
\* subscription, the all-lots one; the rows of other drivers are unchanged.
C13_TodosReemplazaEspecificas ==
    [][\A u \in Suscriptores :
          (ultimo'.op = "suscribirse_todos" /\ ultimo'.quien = u
             /\ AccesoVigente(usuarios, ahora, u)
             /\ Suscripcion(u, Ninguno, TRUE) \notin FilasDe(suscripciones, u))
          => (/\ ultimo'.resultado = "Subscribed"
              /\ FilasDe(suscripciones', u) = {Suscripcion(u, Ninguno, TRUE)}
              /\ CopiesIn(Suscripcion(u, Ninguno, TRUE), suscripciones') = 1
              /\ OtrosIguales(suscripciones, suscripciones', u))]_vars

\* driver 1 has just subscribed to all lots while driver 2 holds a row
C13_Testigo ==
    /\ ultimo.op = "suscribirse_todos" /\ ultimo.resultado = "Subscribed"
    /\ ultimo.quien = 1
    /\ FilasDe(suscripciones, 1) = {Suscripcion(1, Ninguno, TRUE)}
    /\ FilasDe(suscripciones, 2) # {}

C15_SuscripcionAParqueadero ==
    [][\A u \in Suscriptores, p \in IdsParqueadero :
          (ultimo'.op = "suscribirse" /\ ultimo'.quien = u /\ ultimo'.parqueadero = p
             /\ AccesoVigente(usuarios, ahora, u))
          => IF p \notin DOMAIN parqueaderos
             THEN ultimo'.resultado = "NotFound" /\ suscripciones' = suscripciones
             ELSE IF Suscripcion(u, p, TRUE) \in FilasDe(suscripciones, u)
             THEN ultimo'.resultado = "AlreadySubscribed" /\ suscripciones' = suscripciones
             ELSE /\ ultimo'.resultado = "Subscribed"
                  /\ \A r \in DOMAIN suscripciones \cup DOMAIN suscripciones' :
                       CopiesIn(r, suscripciones')
                         = CopiesIn(r, suscripciones)
                             + (IF r = Suscripcion(u, p, TRUE) THEN 1 ELSE 0)]_vars

\* driver 1, subscribed to all lots, has just subscribed to lot 1 as well
C15_Testigo ==
    /\ ultimo.op = "suscribirse" /\ ultimo.resultado = "Subscribed"
    /\ ultimo.quien = 1 /\ ultimo.parqueadero = 1
    /\ CopiesIn(Suscripcion(1, Ninguno, TRUE), suscripciones) = 1
    /\ CopiesIn(Suscripcion(1, 1, TRUE), suscripciones) = 1

\* C16: an unsubscribe from a lot deactivates the driver's active row for that
\* lot and reports success exactly when there was one; otherwise it reports
\* that there was none and changes nothing.  Every other row, of this driver or
\* of another, is unchanged, and no access check is made: no user record changes.
C16_DesuscripcionDeParqueadero ==
    [][\A u \in Suscriptores, p \in IdsParqueadero :
          (ultimo'.op = "desuscribirse" /\ ultimo'.quien = u /\ ultimo'.parqueadero = p)
          => (/\ usuarios' = usuarios
              /\ ultimo'.mensajes = EmptyBag
              /\ IF Suscripcion(u, p, TRUE) \in FilasDe(suscripciones, u)
                 THEN /\ ultimo'.resultado = "Unsubscribed"
                      /\ Suscripcion(u, p, TRUE) \notin FilasDe(suscripciones', u)
                      /\ \A r \in DOMAIN suscripciones \cup DOMAIN suscripciones' :
                           r # Suscripcion(u, p, TRUE)
                             => CopiesIn(r, suscripciones') = CopiesIn(r, suscripciones)
                 ELSE /\ ultimo'.resultado \in {"NotSubscribed", "NotFound"}
                      /\ suscripciones' = suscripciones)]_vars

\* driver 1, without access any more, has left lot 1 and keeps the all-lots
\* subscription; driver 2 still holds a row
C16_Testigo ==
    /\ ultimo.op = "desuscribirse" /\ ultimo.resultado = "Unsubscribed"
    /\ ultimo.quien = 1 /\ ultimo.parqueadero = 1
    /\ ~AccesoVigente(usuarios, ahora, 1)
    /\ FilasDe(suscripciones, 1) = {Suscripcion(1, Ninguno, TRUE)}
    /\ FilasDe(suscripciones, 2) # {}

\* the number of active rows of driver u, counted row by row
CuentaDe(sus, u) ==
    BagCardinality([r \in {x \in DOMAIN sus : x.conductor_id = u /\ x.activa} |-> sus[r]])

\* C17: an unsubscribe from everything returns the number of the driver's rows
\* that were active, leaves the driver without an active row and outside the
\* targets of every lot, and leaves other drivers' rows alone; a second call
\* right after it returns 0.
C17_DesuscripcionDeTodos ==
    [][\A u \in Suscriptores :
          (ultimo'.op = "desuscribirse_todos" /\ ultimo'.quien = u)
          => (/\ ultimo'.cuenta = CuentaDe(suscripciones, u)
              /\ FilasDe(suscripciones', u) = {}
              /\ \A p \in IdsParqueadero : u \notin SuscritosA(suscripciones', p)
              /\ OtrosIguales(suscripciones, suscripciones', u)
              /\ (ultimo.op = "desuscribirse_todos" /\ ultimo.quien = u)
                   => ultimo'.cuenta = 0)]_vars

\* driver 1 held the all-lots subscription and one to lot 1 and has left both
C17_Testigo ==
    /\ ultimo.op = "desuscribirse_todos" /\ ultimo.quien = 1 /\ ultimo.cuenta = 2
    /\ FilasDe(suscripciones, 1) = {}
    /\ FilasDe(suscripciones, 2) # {}

\* C18: no two users hold the same referral code, whichever way the codes were
\* generated, the clock-derived fallback included.
C18_CodigosUnicos ==
    \A u \in Conductores, v \in Conductores :
        (u # v /\ usuarios[u].codigo_referido # SinCodigo)
            => usuarios[u].codigo_referido # usuarios[v].codigo_referido

\* the candidates of a draw that no user holds
Libres(us, sorteo) ==
    {i \in 1..MAX_INTENTOS : \A v \in DOMAIN us : us[v].codigo_referido # sorteo[i]}

\* C19: the generation of a code always ends with a code assigned to the user
\* and returned: the first of at most 10 candidates that no user holds, or the
\* fallback code when all 10 are taken; a registration that reaches it ends
\* with the user holding the code it was told.
C19_GeneracionSiempreAsigna ==
    /\ \A u \in Registrantes, sorteo \in Sorteos, segundos \in Segundos :
          LET g == generar_y_asignar_codigo_referido(usuarios, u, sorteo, segundos)
              libres == Libres(usuarios, sorteo)
          IN  /\ g.intentos \in 1..MAX_INTENTOS
              /\ g.codigo # SinCodigo
              /\ g.usuarios[u].codigo_referido = g.codigo
              /\ \A v \in Conductores \ {u} : g.usuarios[v] = usuarios[v]
              /\ libres # {} =>
                   /\ g.intentos \in libres
                   /\ \A i \in libres : g.intentos <= i
                   /\ g.codigo = sorteo[g.intentos]
              /\ libres = {} => g.codigo = (IF segundos = 1 THEN SB0001 ELSE SB0000)
    /\ (ultimo.op = "registro" /\ ultimo.resultado \in {"Registrado", "Referido"})
          => /\ ultimo.codigo # SinCodigo
             /\ usuarios[ultimo.quien].codigo_referido = ultimo.codigo
             /\ ultimo.cuenta \in 1..MAX_INTENTOS
             /\ ultimo.mensajes
                  = SetToBag({Mensaje(ultimo.quien, "registro", ultimo.codigo, 0)})

\* a registration whose 10 candidates were all taken got the fallback code,
\* which another user holds already
C19_Testigo ==
    /\ ultimo.op = "registro" /\ ultimo.resultado = "Registrado"
    /\ ultimo.cuenta = MAX_INTENTOS
    /\ \E v \in Conductores \ {ultimo.quien} :
          usuarios[v].codigo_referido = ultimo.codigo

\* C20: redeeming a code that no user holds fails and changes no user record:
\* the new user stays referred by nobody, and no count, premium flag or
\* expiration changes.
C20_CodigoSinDuenoNoCambia ==
    [][(ultimo'.op = "registro" /\ ultimo'.canjeado # SinCodigo
          /\ \A v \in Conductores : usuarios[v].codigo_referido # ultimo'.canjeado)
       => (/\ ultimo'.resultado = "CodigoInvalido"
           /\ ultimo'.referidor = Ninguno
           /\ usuarios' = usuarios)]_vars

\* user 2 typed ZZZ999, which nobody holds, after another user had redeemed a code
C20_Testigo ==
    /\ ultimo.op = "registro" /\ ultimo.resultado = "CodigoInvalido"
    /\ ultimo.quien = 2 /\ ultimo.canjeado = <<"Z", "Z", "Z", "9", "9", "9">>
    /\ usuarios[2].referido_por = SinCodigo
    /\ \E v \in Conductores : usuarios[v].referido_por # SinCodigo

\* the users holding the code, read from the records
Duenos(us, codigo) == {v \in DOMAIN us : us[v].codigo_referido = codigo}

\* C21: redeeming a code that referrer R holds succeeds with R's id, sets the
\* new user's referido_por to the code and raises R's numero_referidos by
\* exactly 1; no user but the new one and R is modified.
C21_CanjeAcreditaAlReferidor ==
    [][\A u \in Registrantes :
          (ultimo'.op = "registro" /\ ultimo'.quien = u /\ ultimo'.canjeado # SinCodigo
             /\ Duenos(usuarios, ultimo'.canjeado) # {})
          => (/\ ultimo'.resultado = "Referido"
              /\ ultimo'.referidor \in Duenos(usuarios, ultimo'.canjeado)
              /\ usuarios'[u].referido_por = ultimo'.canjeado
              /\ usuarios'[ultimo'.referidor].numero_referidos
                   = usuarios[ultimo'.referidor].numero_referidos + 1
              /\ \A v \in Conductores \ {u, ultimo'.referidor} :
                   usuarios'[v] = usuarios[v])]_vars

\* user 3 redeemed the code of user 2, who had registered with user 1's code
C21_Testigo ==
    /\ ultimo.op = "registro" /\ ultimo.resultado = "Referido"
    /\ ultimo.quien = 3 /\ ultimo.referidor = 2
    /\ usuarios[3].referido_por = usuarios[2].codigo_referido
    /\ usuarios[2].referido_por = ABC123
    /\ usuarios[2].numero_referidos = 1 /\ usuarios[1].numero_referidos = 2

\* C22: after a successful redemption the referrer is premium; the new
\* expiration is the prior one plus 7 days when the referrer held premium that
\* had not expired, and now plus 7 days otherwise (no premium, or an
\* expiration already past); it is never less than 7 days after the redemption.
C22_ExpiracionTrasCanje ==
    [][(ultimo'.op = "registro" /\ ultimo'.resultado = "Referido")
       => LET r == ultimo'.referidor
          IN  /\ usuarios'[r].es_premium
              /\ usuarios'[r].fecha_expiracion_premium
                   = IF AccesoVigente(usuarios, ahora, r)
                     THEN Fecha(usuarios[r].fecha_expiracion_premium.t + DIAS_PREMIUM)
                     ELSE Fecha(ahora + DIAS_PREMIUM)
              /\ usuarios'[r].fecha_expiracion_premium.t >= ahora + DIAS_PREMIUM]_vars

\* C23: messages of one user, handled one at a time, redeem a code at most
\* once: a code is processed only while the sender's registration state is
\* esperando_codigo_referido, a successful redemption leaves the sender in
\* completo, and a user in completo stays there with referido_por as it is and
\* no message of that user processed as a code again.
C23_UnSoloCanjePorUsuario ==
    [][\A u \in Registrantes :
          /\ (ultimo'.op = "registro" /\ ultimo'.quien = u)
                => usuarios[u].estado_registro = "esperando_codigo_referido"
          /\ (ultimo'.op = "registro" /\ ultimo'.quien = u /\ ultimo'.resultado = "Referido")
                => /\ usuarios'[u].estado_registro = "completo"
                   /\ usuarios[u].referido_por = SinCodigo
          /\ usuarios'[u].referido_por # usuarios[u].referido_por
                => (ultimo'.op = "registro" /\ ultimo'.quien = u
                    /\ ultimo'.resultado = "Referido")
          /\ usuarios[u].estado_registro = "completo"
                => /\ usuarios'[u].estado_registro = "completo"
                   /\ usuarios'[u].referido_por = usuarios[u].referido_por
                   /\ ~(ultimo'.op = "registro" /\ ultimo'.quien = u)
                   /\ (ultimo'.quien = u =>
                         \A v \in Conductores :
                            usuarios'[v].numero_referidos = usuarios[v].numero_referidos)]_vars

\* user 2 redeemed ABC123, is registered, and then sent one more message
C23_Testigo ==
    /\ ultimo.op = "interaccion" /\ ultimo.quien = 2
    /\ usuarios[2].estado_registro = "completo"
    /\ usuarios[2].referido_por = ABC123
    /\ usuarios[1].numero_referidos = 2

\* the stored expiration of user u is set and still ahead at time t
ExpiracionPendiente(us, t, u) ==
    /\ u \in DOMAIN us
    /\ us[u].es_premium
    /\ us[u].fecha_expiracion_premium.k = "fecha"
    /\ t < us[u].fecha_expiracion_premium.t

\* C24: two calls of verificar_acceso_premium for the same user, one right
\* after the other with no time passing and nothing else in between, return
\* the same tiene_acceso, es_premium, fecha_expiracion and dias_restantes, also
\* when they come just after the expiration has passed; the stored es_premium
\* goes from true to false in at most one of them.
C24_AccesoIdempotente ==
    [][(ultimo.op = "acceso" /\ ultimo'.op = "acceso" /\ ultimo'.quien = ultimo.quien)
          => /\ ultimo'.acceso = ultimo.acceso
             /\ usuarios' = usuarios]_vars

\* C25: verificar_acceso_premium returns tiene_acceso exactly when the user
\* exists, es_premium is true and the expiration is set and strictly ahead; for
\* a premium user whose expiration has passed it stores es_premium false and
\* no expiration and returns no access; for an unknown id and in every other
\* case it writes nothing.
C25_AccesoCorrecto ==
    [][ultimo'.op = "acceso" =>
          LET id == ultimo'.quien
          IN  /\ ultimo'.acceso.tiene_acceso = ExpiracionPendiente(usuarios, ahora, id)
              /\ id \notin DOMAIN usuarios =>
                    (usuarios' = usuarios /\ ~ultimo'.acceso.tiene_acceso)
              /\ id \in DOMAIN usuarios =>
                    IF /\ usuarios[id].es_premium
                       /\ usuarios[id].fecha_expiracion_premium.k = "fecha"
                       /\ ahora >= usuarios[id].fecha_expiracion_premium.t
                    THEN /\ ~ultimo'.acceso.tiene_acceso
                         /\ usuarios' = [usuarios EXCEPT
                                            ![id].es_premium = FALSE,
                                            ![id].fecha_expiracion_premium = SinFecha]
                    ELSE usuarios' = usuarios]_vars

\* the call that found user 1's premium expired and deactivated it
C25_Testigo ==
    /\ ultimo.op = "acceso" /\ ultimo.quien = 1
    /\ ultimo.acceso.es_premium /\ ~ultimo.acceso.tiene_acceso
    /\ ~usuarios[1].es_premium /\ usuarios[1].fecha_expiracion_premium = SinFecha
    /\ ahora = 1

\* C26: in every state reached by registrations, code generations, redemptions
\* and access checks, a user with es_premium true has an expiration stored, and
\* the user an access check has just found expired has es_premium false and
\* no expiration.
C26_PremiumTieneExpiracion ==
    /\ \A u \in DOMAIN usuarios :
          usuarios[u].es_premium => usuarios[u].fecha_expiracion_premium # SinFecha
    /\ (ultimo.op = "acceso" /\ ultimo.acceso.es_premium /\ ~ultimo.acceso.tiene_acceso)
          => /\ ~usuarios[ultimo.quien].es_premium
             /\ usuarios[ultimo.quien].fecha_expiracion_premium = SinFecha

\* user 2 was found expired after its own referral gave it premium, while user
\* 1 holds premium with an expiration
C26_Testigo ==
    /\ ultimo.op = "acceso" /\ ultimo.quien = 1
    /\ ultimo.acceso.es_premium /\ ~ultimo.acceso.tiene_acceso
    /\ usuarios[2].es_premium /\ usuarios[2].fecha_expiracion_premium.k = "fecha"
    /\ usuarios[3].referido_por = usuarios[2].codigo_referido
    /\ usuarios[3].referido_por # SinCodigo

\* C27: however an access check of a user interleaves with a redemption that
\* grants that user premium, the write that ends the check never takes away
\* an unexpired premium: a user with es_premium true and an expiration still
\* ahead has both after the check as well.
C27_CarreraBenigna ==
    [][\A r \in Registrantes :
          (/\ ultimo'.op = "acceso" /\ ultimo'.quien = r
           /\ ExpiracionPendiente(usuarios, ahora, r))
             => ExpiracionPendiente(usuarios', ahora', r)]_vars

\* the whole seconds from the timestamp to the clock of the last labelling
EdadUltima == (ultimo.reloj - 2 * ultimo.marca.t) \div 2

\* C28: for a timestamp s whole seconds old, tiempo_relativo returns the
\* seconds label when s < 60, s div 60 minutes when 60 <= s < 3600, s div 3600
\* hours when 3600 <= s < 86400, s div 86400 days when 86400 <= s < 604800 and
\* the date of the timestamp when s >= 604800; each boundary is in the later
\* range.
C28_EtiquetasPorEdad ==
    (/\ ultimo.op = "tiempo_relativo"
     /\ ultimo.marca.k = "fecha"
     /\ ultimo.reloj >= 2 * ultimo.marca.t)
      => LET s == EdadUltima
             e == ultimo.etiqueta
         IN  /\ s < 60 => e = Etiqueta("Hace unos segundos", 0)
             /\ (60 <= s /\ s < 3600) => e = Etiqueta("min", s \div 60)
             /\ (3600 <= s /\ s < 86400) => e = Etiqueta("h", s \div 3600)
             /\ (86400 <= s /\ s < 604800) => e = Etiqueta("d", s \div 86400)
             /\ s >= 604800 => e = Etiqueta("dd/mm/YYYY", ultimo.marca.t \div 86400)
             /\ e.k \in {"Hace unos segundos", "min", "h", "d", "dd/mm/YYYY"}

\* a timestamp exactly one hour and half a second old is labelled 1h
C28_Testigo ==
    /\ ultimo.op = "tiempo_relativo" /\ ultimo.marca.k = "fecha"
    /\ ultimo.reloj = 2 * (ultimo.marca.t + 3600) + 1
    /\ ultimo.etiqueta = Etiqueta("h", 1)

\* C29: a timestamp that does not parse (a malformed text or None) makes no
\* time operation fail: tiempo_relativo returns "Desconocido", the
\* premium-active check returns false, the days remaining are 0, the extension
\* is the clock plus the days added, and the access check of a user whose
\* stored expiration does not parse returns no access.
C29_FechaIlegible ==
    /\ (ultimo.op = "tiempo_relativo" /\ ultimo.marca.k # "fecha")
          => ultimo.etiqueta = Etiqueta("Desconocido", 0)
    /\ (ultimo.op = "premium_activo" /\ ultimo.marca.k # "fecha") => ~ultimo.activo
    /\ (ultimo.op = "dias_restantes" /\ ultimo.marca.k # "fecha") => ultimo.cuenta = 0
    /\ (ultimo.op = "extender" /\ ultimo.marca.k # "fecha")
          => ultimo.fecha = Fecha(ahora + DIAS_PREMIUM)
    /\ (ultimo.op = "acceso" /\ ultimo.acceso.fecha_expiracion.k # "fecha")
          => (~ultimo.acceso.tiene_acceso /\ ultimo.acceso.dias_restantes = 0)

\* the access check of user 1, premium with a malformed expiration stored
C29_Testigo ==
    /\ ultimo.op = "acceso" /\ ultimo.quien = 1
    /\ ultimo.acceso.es_premium /\ ultimo.acceso.fecha_expiracion = FechaMala
    /\ ~ultimo.acceso.tiene_acceso
    /\ ~usuarios[1].es_premium /\ ahora = 1

\* the descriptor stands for a quantity other than zero, or for no number
DescriptorConCupos(cupos_libres) ==
    ~EsEntero(SinMasNiMenos(cupos_libres)) \/ Entero(SinMasNiMenos(cupos_libres)) # 0

\* C30: in every state of a lot, from its creation with the model's defaults
\* through manager updates, manager switches and activations by reports,
\* tiene_cupos is true exactly when the free-spot descriptor is a quantity
\* other than zero or is not a number; and a manager's update with a
\* descriptor that is not a number completes, leaving tiene_cupos true.
C30_TieneCuposSegunDescriptor ==
    /\ \A p \in Parqueaderos :
          parqueaderos[p].tiene_cupos = DescriptorConCupos(parqueaderos[p].cupos_libres)
    /\ (/\ ultimo.op = "actualizar_cupos"
        /\ ultimo.parqueadero \in Parqueaderos
        /\ ~EsEntero(parqueaderos[ultimo.parqueadero].cupos_libres))
          => (/\ ultimo.resultado = "Actualizado"
              /\ parqueaderos[ultimo.parqueadero].tiene_cupos)

\* the reminders sent to user u among the messages of the last call
Recordatorios(mensajes, u) ==
    SumaCopias(mensajes, {m \in BagToSet(mensajes) : m.tipo = "recordatorio" /\ m.para = u})

\* C31: a report sends the reporter's referral reminder exactly once when it
\* is counted below the threshold and exactly once when it reaches the
\* threshold, and never when the lot is unknown or the report is a duplicate;
\* the reminder leaves es_premium, the expiration, the referral code and the
\* referral count of the reporter as they were.
C31_RecordatorioSoloLee ==
    [][ultimo'.op = "reportar" =>
          LET u == ultimo'.quien
          IN  /\ Recordatorios(ultimo'.mensajes, u) =
                    (IF ultimo'.resultado \in {"NotFound", "DuplicateReport"} THEN 0 ELSE 1)
              /\ usuarios'[u].es_premium = usuarios[u].es_premium
              /\ usuarios'[u].fecha_expiracion_premium = usuarios[u].fecha_expiracion_premium
              /\ usuarios'[u].codigo_referido = usuarios[u].codigo_referido
              /\ usuarios'[u].numero_referidos = usuarios[u].numero_referidos]_vars

CopiasDelActual(entregados, actual) ==
    Cardinality({k \in DOMAIN entregados : entregados[k].fila \in {0, actual}})

\* C34: in a process_message call that reaches the agent, the rows loaded from
\* the store do not include the row of the current message, and the list
\* handed to the agent holds the current message exactly once, as its last
\* element.
C34_ActualUnaVez ==
    (ultimo.op = "process_message" /\ ultimo.resultado \in {"Respuesta", "Error"}) =>
        /\ \A k \in DOMAIN ultimo.previos : ultimo.previos[k] # ultimo.actual
        /\ CopiasDelActual(ultimo.entregados, ultimo.actual) = 1
        /\ ultimo.entregados[Len(ultimo.entregados)].fila = 0

\* C35: get_conversation_context returns at most 5 messages, each an active
\* message of the user asked for, with timestamps that never go back.
C35_ContextoDeCinco ==
    ultimo.op = "get_conversation_context" =>
        /\ Len(ultimo.previos) <= LIMITE
        /\ \A k \in DOMAIN ultimo.previos :
              /\ mensajes_conversacion[ultimo.previos[k]].user_id = ultimo.usuario
              /\ mensajes_conversacion[ultimo.previos[k]].activo
        /\ \A j, k \in DOMAIN ultimo.previos :
              j < k => mensajes_conversacion[ultimo.previos[j]].timestamp
                          <= mensajes_conversacion[ultimo.previos[k]].timestamp

\* the cached agents created for one user
AgentesDe(cache, user_id) ==
    {key \in cache : \E rol \in RolesConocidos : key = ClaveDeCache(user_id, rol)}

\* C40: reset_conversation(u) removes the cached agents of u and leaves every
\* message of u inactive; the cached agents and the messages of every other
\* user stay as they were, also when u's id is a prefix of the other id.
C40_ReinicioAislado ==
    [][ultimo'.op = "reset_conversation" =>
          LET u == ultimo'.usuario
          IN  /\ AgentesDe(agents_cache', u) = {}
              /\ \A v \in UsuariosChat \ {u} :
                    AgentesDe(agents_cache', v) = AgentesDe(agents_cache, v)
              /\ Len(mensajes_conversacion') = Len(mensajes_conversacion)
              /\ \A i \in DOMAIN mensajes_conversacion :
                    IF mensajes_conversacion[i].user_id = u
                    THEN mensajes_conversacion'[i] =
                             [mensajes_conversacion[i] EXCEPT !.activo = FALSE]
                    ELSE mensajes_conversacion'[i] = mensajes_conversacion[i]]_vars

\* C33: a process_message call never removes a stored message, it only appends
\* messages and marks messages inactive; after a call that returns the agent's
\* answer the user has at most 10 active messages, they are the active ones the
\* user had plus the two of this call cut down to 10, and no inactive message
\* of the user is newer than an active one.
C33_DiezActivos ==
    [][ultimo'.op = "process_message" =>
          LET u == ultimo'.usuario
              activos == ActivosDe(mensajes_conversacion', u)
              antes == Cardinality(ActivosDe(mensajes_conversacion, u))
          IN  /\ Len(mensajes_conversacion') > Len(mensajes_conversacion)
              /\ \A i \in DOMAIN mensajes_conversacion :
                    \/ mensajes_conversacion'[i] = mensajes_conversacion[i]
                    \/ mensajes_conversacion'[i] =
                           [mensajes_conversacion[i] EXCEPT !.activo = FALSE]
              /\ ultimo'.resultado = "Respuesta" =>
                    /\ Cardinality(activos) <= MANTENER_ULTIMOS
                    /\ Cardinality(activos) =
                           (IF antes + 2 < MANTENER_ULTIMOS THEN antes + 2
                            ELSE MANTENER_ULTIMOS)
                    /\ \A i \in activos :
                          \A j \in MensajesDe(mensajes_conversacion', u) \ activos :
                              mensajes_conversacion'[j].timestamp
                                  <= mensajes_conversacion'[i].timestamp]_vars

\* six answered messages: twelve rows stored, the two oldest archived
C33_Testigo ==
    /\ ultimo.op = "process_message"
    /\ ultimo.resultado = "Respuesta"
    /\ Cardinality(MensajesDe(mensajes_conversacion, U57)) = 12
    /\ Cardinality(ActivosDe(mensajes_conversacion, U57)) = MANTENER_ULTIMOS
    /\ ~mensajes_conversacion[1].activo
    /\ ~mensajes_conversacion[2].activo

\* C36: between two reportar_cupos_disponibles calls every lot has between 0
\* and 4 unprocessed reports: the call that counts the fifth one leaves none
\* of them unprocessed.
C36_CuentaBajoUmbral ==
    \A p \in Parqueaderos :
        /\ contar_reportes_activos(reportes, p) >= 0
        /\ contar_reportes_activos(reportes, p) < UMBRAL

\* C37: once two new users have both redeemed the referrer's code, whatever
\* the order of their steps, the referrer's numero_referidos is two above what
\* it was and the referrer's premium expires 14 days after the expiration it
\* had, which had not passed.
C37_DosCanjesCatorceDias ==
    (\A u \in Canjeadores : pc[u] = "canjeado") =>
        /\ usuarios[Referidor].numero_referidos =
               UsuarioRegistrado(ABC123, ExpiraReferidor).numero_referidos + 2
        /\ usuarios[Referidor].es_premium
        /\ usuarios[Referidor].fecha_expiracion_premium =
               Fecha(ExpiraReferidor + 2 * DIAS_PREMIUM)

\* the users who were referred with the code user u holds
ReferidosPor(us, u) ==
    Cardinality({v \in DOMAIN us : us[v].referido_por = us[u].codigo_referido})

\* C38: numero_referidos of every user moves together with the number of users
\* whose referido_por is that user's code: a user who receives a code has
\* numero_referidos equal to that number, and for a user who holds a code every
\* registration message changes both by the same amount.
C38_CuentaIgualReferidos ==
    [][\A u \in Conductores :
          IF usuarios[u].codigo_referido = SinCodigo
          THEN usuarios'[u].codigo_referido # SinCodigo =>
                   usuarios'[u].numero_referidos = ReferidosPor(usuarios', u)
          ELSE usuarios'[u].numero_referidos - usuarios[u].numero_referidos =
                   ReferidosPor(usuarios', u) - ReferidosPor(usuarios, u)]_vars

\* the order of the registration states
SiguienteEstado(estado) ==
    IF estado = "esperando_nombre" THEN "esperando_codigo_referido" ELSE "completo"

\* C39: at every storage write of the registration handlers a user whose
\* estado_registro is "completo" holds a referral code, the agent is reached
\* only by such a user, estado_registro changes only to the next state of
\* esperando_nombre, esperando_codigo_referido, completo, and a code nobody
\* holds leaves the sender in esperando_codigo_referido.
C39_CompletoConCodigo ==
    [][\A u \in Registrantes :
          /\ usuarios'[u].estado_registro = "completo"
                => usuarios'[u].codigo_referido # SinCodigo
          /\ (ultimo'.op = "interaccion" /\ ultimo'.quien = u)
                => /\ usuarios[u].estado_registro = "completo"
                   /\ usuarios[u].codigo_referido # SinCodigo
          /\ usuarios'[u].estado_registro # usuarios[u].estado_registro
                => /\ usuarios[u].estado_registro # "completo"
                   /\ usuarios'[u].estado_registro =
                          SiguienteEstado(usuarios[u].estado_registro)
          /\ (ultimo'.resultado = "CodigoInvalido" /\ ultimo'.quien = u)
                => usuarios'[u].estado_registro = "esperando_codigo_referido"]_vars

\* C3: of the concurrent report calls on one lot, at most one reads a count
\* of 5 or more after its insert and runs the activation of the lot.
C3_UnaActivacionPorCruce ==
    Cardinality({d \in Conductores :
        pc[d] \in {"excepcion", "activado"} /\ leido[d] >= UMBRAL}) <= 1

====
